---------------------------- MODULE Spec2Model ----------------------------
(***************************************************************************)
(* Bidirectional mapping engine between a host scene graph and the         *)
(* canonical document tree (DesignNode): the Creator (FigmaNodeRepository  *)
(* and the per-type node creators) and the Exporter (NodeExporter).        *)
(*                                                                         *)
(* Numbers are integers.  Opacity and colour channels, which the program   *)
(* keeps in [0,1], are kept in hundredths: 100 stands for 1.0.             *)
(* An optional field of a canonical node that is absent is absent from the *)
(* record's domain.                                                        *)
(***************************************************************************)
EXTENDS Integers, Sequences, FiniteSets, TLC

VARIABLES
    doc,        \* the canonical tree handed to createNode
    host,       \* the host scene graph: node id -> host node
    stack,      \* the call stack of the running createNode call
    exc,        \* TRUE while an exception is propagating up the call stack
    result,     \* what createNode returned: "pending", "null" or a node id
    log,        \* every host operation made so far, in program order
    exported    \* what NodeExporter.export returned ("none" before the call)

vars == <<doc, host, stack, exc, result, log, exported>>

-----------------------------------------------------------------------------
(* Bounds of the model *)

\* the longest children list of a generated container
MaxChildren == 3

-----------------------------------------------------------------------------
(* Generic helpers *)

Has(d, f) == f \in DOMAIN d

Max(a, b) == IF a >= b THEN a ELSE b

Min(a, b) == IF a <= b THEN a ELSE b

Last(s) == s[Len(s)]

\* all sequences over S of length at most n
SeqUpTo(S, n) == UNION {[1..k -> S] : k \in 0..n}

\* a property write: property p receives value v
W(p, v) == [p |-> p, v |-> v]

\* the host's page node: figma.currentPage
PageId == 1


\* "unsupported or insufficiently specified": the codecs' null
Null == [null |-> TRUE]

\* a list that keeps its null entries
KeepAll(s) == s

\* the elements of s that are not Null, in order
RECURSIVE DropNull(_)
DropNull(s) ==
    IF s = <<>> THEN <<>>
    ELSE IF Head(s) = Null THEN DropNull(Tail(s))
    ELSE <<Head(s)>> \o DropNull(Tail(s))

\* JavaScript's  x || dflt  on an optional numeric field
OrElse(d, f, dflt) == IF Has(d, f) /\ d[f] # 0 THEN d[f] ELSE dflt

-----------------------------------------------------------------------------
(* Type-tag codec: NodeTypeMapper *)

TYPE_MAP ==
    {"FRAME", "GROUP", "RECTANGLE", "TEXT", "ELLIPSE", "VECTOR", "LINE",
     "POLYGON", "STAR", "COMPONENT", "COMPONENT_SET", "INSTANCE",
     "BOOLEAN_OPERATION", "SECTION", "SLICE", "CONNECTOR", "STICKY",
     "SHAPE_WITH_TEXT", "STAMP", "HIGHLIGHT", "WASHI_TAPE", "TABLE",
     "TABLE_CELL", "EMBED", "LINK_UNFURL", "MEDIA", "CODE_BLOCK", "WIDGET"}

\* String.prototype.toUpperCase on the tags the documents use
ToUpperCase(s) ==
    CASE s \in {"frame", "Frame"} -> "FRAME"
      [] s \in {"group", "Group"} -> "GROUP"
      [] s \in {"text", "Text"} -> "TEXT"
      [] s = "rectangle" -> "RECTANGLE"
      [] s = "ellipse" -> "ELLIPSE"
      [] s = "section" -> "SECTION"
      [] s = "vector" -> "VECTOR"
      [] s = "slice" -> "SLICE"
      [] s = "table" -> "TABLE"
      [] s = "Component_Set" -> "COMPONENT_SET"
      [] s = "boolean_operation" -> "BOOLEAN_OPERATION"
      [] s = "blob" -> "BLOB"
      [] s = "frame " -> "FRAME "
      [] s = "Widget2" -> "WIDGET2"
      [] OTHER -> s

\* a normalize that upper-cases the tag and leaves the lookup out
UpperOnly(type) == ToUpperCase(type)

Normalize(type) ==
    LET upperType == ToUpperCase(IF type = "" THEN "FRAME" ELSE type)
    IN  IF upperType \in TYPE_MAP THEN upperType ELSE "FRAME"

-----------------------------------------------------------------------------
(* Fill codec: FillMapper (canonical -> host) *)

\* the colour-channel value 1.0: channels are counted in units of 0.00001,
\* one digit finer than NodeExporter.roundValue keeps
Unit == 100000

\* ColorFactory.normalize: a channel clamped to [0,1]
ColorNormalize(c) == Max(0, Min(Unit, c))

NormalizeOpacity(fill) ==
    IF ~Has(fill, "opacity") THEN 100 ELSE Max(0, Min(100, fill.opacity))

GradientTypes ==
    {"GRADIENT_LINEAR", "GRADIENT_RADIAL", "GRADIENT_ANGULAR", "GRADIENT_DIAMOND"}

MapFillToPaint(fill) ==
    LET base == [visible |-> ~(Has(fill, "visible") /\ fill.visible = FALSE),
                 opacity |-> NormalizeOpacity(fill),
                 blendMode |-> IF Has(fill, "blendMode") THEN fill.blendMode
                               ELSE "NORMAL"]
    IN  CASE fill.type = "SOLID" ->
               IF ~Has(fill, "color") THEN Null
               ELSE base @@ [type |-> "SOLID",
                             color |-> [r |-> ColorNormalize(OrElse(fill.color, "r", 0)),
                                        g |-> ColorNormalize(OrElse(fill.color, "g", 0)),
                                        b |-> ColorNormalize(OrElse(fill.color, "b", 0))]]
          [] fill.type \in GradientTypes ->
               IF ~Has(fill, "gradientStops") \/ ~Has(fill, "gradientTransform")
               THEN Null
               ELSE base @@ [type |-> fill.type,
                             gradientStops |->
                                 [i \in DOMAIN fill.gradientStops |->
                                     [position |-> fill.gradientStops[i].position,
                                      color |->
                                         [r |-> ColorNormalize(fill.gradientStops[i].color.r),
                                          g |-> ColorNormalize(fill.gradientStops[i].color.g),
                                          b |-> ColorNormalize(fill.gradientStops[i].color.b),
                                          a |-> IF Has(fill.gradientStops[i].color, "a")
                                                THEN fill.gradientStops[i].color.a
                                                ELSE Unit]]],
                             gradientTransform |-> fill.gradientTransform]
          [] fill.type = "IMAGE" ->
               IF ~Has(fill, "imageHash") THEN Null
               ELSE base @@ [type |-> "IMAGE",
                             scaleMode |-> IF Has(fill, "scaleMode")
                                           THEN fill.scaleMode ELSE "FILL",
                             imageHash |-> fill.imageHash,
                             rotation |-> OrElse(fill, "rotation", 0)]
          [] fill.type = "VIDEO" ->
               IF ~Has(fill, "videoHash") THEN Null
               ELSE base @@ [type |-> "VIDEO",
                             scaleMode |-> IF Has(fill, "scaleMode")
                                           THEN fill.scaleMode ELSE "FILL",
                             videoHash |-> fill.videoHash]
          [] OTHER -> Null

ToPaint(fills) == DropNull([i \in DOMAIN fills |-> MapFillToPaint(fills[i])])

-----------------------------------------------------------------------------
(* Effect codec: EffectMapper (canonical -> host) *)

EffectColor(effect) ==
    [r |-> IF Has(effect, "color") THEN OrElse(effect.color, "r", 0) ELSE 0,
     g |-> IF Has(effect, "color") THEN OrElse(effect.color, "g", 0) ELSE 0,
     b |-> IF Has(effect, "color") THEN OrElse(effect.color, "b", 0) ELSE 0,
     a |-> IF Has(effect, "color") /\ Has(effect.color, "a")
           THEN effect.color.a ELSE Unit \div 4]

MapToFigma(effect) ==
    LET visible == ~(Has(effect, "visible") /\ effect.visible = FALSE)
        radius == OrElse(effect, "radius", 0)
        shadow == [visible |-> visible, radius |-> radius,
                   color |-> EffectColor(effect),
                   offset |-> [x |-> IF Has(effect, "offset")
                                     THEN OrElse(effect.offset, "x", 0) ELSE 0,
                               y |-> IF Has(effect, "offset")
                                     THEN OrElse(effect.offset, "y", 4) ELSE 4],
                   spread |-> OrElse(effect, "spread", 0),
                   blendMode |-> IF Has(effect, "blendMode") THEN effect.blendMode
                                 ELSE "NORMAL"]
    IN  CASE effect.type = "DROP_SHADOW" ->
               shadow @@ [type |-> "DROP_SHADOW",
                          showShadowBehindNode |->
                              Has(effect, "showShadowBehindNode")
                              /\ effect.showShadowBehindNode]
          [] effect.type = "INNER_SHADOW" -> shadow @@ [type |-> "INNER_SHADOW"]
          [] effect.type = "LAYER_BLUR" ->
               [type |-> "LAYER_BLUR", visible |-> visible, radius |-> radius]
          [] effect.type = "BACKGROUND_BLUR" ->
               [type |-> "BACKGROUND_BLUR", visible |-> visible, radius |-> radius]
          [] OTHER -> Null

ToFigmaEffect(effects) ==
    DropNull([i \in DOMAIN effects |-> MapToFigma(effects[i])])

-----------------------------------------------------------------------------
(* Host collaborator: which property groups a host node type exposes       *)
(* (the  'prop' in node  tests of the creators)                            *)

FrameLikeHost == {"FRAME", "COMPONENT"}

\* SECTION and SLICE nodes expose neither blend, constraint nor layout mixins
HostHas(t, p) ==
    CASE p \in {"fills"} -> t # "SLICE"
      [] p \in {"strokes", "strokeAlign", "strokeJoin", "strokeMiterLimit",
                "dashPattern"} -> t \notin {"SLICE", "SECTION"}
      [] p = "strokeCap" -> t \notin {"SLICE", "SECTION"}
      [] p = "strokeTopWeight" -> t \in FrameLikeHost \cup {"RECTANGLE"}
      [] p \in {"cornerRadius", "cornerSmoothing"} ->
             t \in FrameLikeHost \cup {"RECTANGLE"}
      [] p = "guides" -> t \in FrameLikeHost
      [] p \in {"layoutWrap", "counterAxisAlignContent"} -> t \in FrameLikeHost
      [] p \in {"opacity", "blendMode", "isMask", "effects", "rotation",
                "constraints", "minWidth", "layoutGrow", "layoutAlign",
                "layoutPositioning", "layoutSizingHorizontal",
                "layoutSizingVertical"} -> t \notin {"SLICE", "SECTION"}
      [] OTHER -> TRUE

-----------------------------------------------------------------------------
(* BaseNodeCreator: each operator is the sequence of property writes the   *)
(* method makes on a host node of type t from canonical node d, in order   *)

\* the write of optional field f, when the canonical node has it
Opt(d, f) == IF Has(d, f) THEN <<W(f, d[f])>> ELSE <<>>

EnsureMinDimensions(d, defaultValue) ==
    [width  |-> Max(1, OrElse(d, "width", defaultValue)),
     height |-> Max(1, OrElse(d, "height", defaultValue))]

Resize(dim) == <<W("resize", <<dim.width, dim.height>>)>>

ApplyFills(t, d) ==
    IF ~Has(d, "fills") \/ Len(d.fills) = 0 \/ ~HostHas(t, "fills") THEN <<>>
    ELSE LET validFills == ToPaint(d.fills)
         IN  IF Len(validFills) > 0 THEN <<W("fills", validFills)>> ELSE <<>>

\* an applyStrokes that writes the stroke weight whatever the strokes are
WeightAlways(t, d) ==
    IF ~HostHas(t, "strokes") THEN <<>>
    ELSE (IF Has(d, "strokes") /\ Len(ToPaint(d.strokes)) > 0
          THEN <<W("strokes", ToPaint(d.strokes))>> ELSE <<>>)
         \o Opt(d, "strokeWeight")

ApplyStrokes(t, d) ==
    IF ~Has(d, "strokes") \/ Len(d.strokes) = 0 THEN <<>>
    ELSE IF ~HostHas(t, "strokes") THEN <<>>
    ELSE LET validStrokes == ToPaint(d.strokes)
         IN  IF Len(validStrokes) = 0 THEN <<>>
             ELSE <<W("strokes", validStrokes)>>
                  \o (IF Has(d, "strokeWeight") /\ d.strokeWeight >= 0
                      THEN <<W("strokeWeight", d.strokeWeight)>> ELSE <<>>)
                  \o (IF Has(d, "individualStrokeWeights")
                         /\ HostHas(t, "strokeTopWeight")
                      THEN <<W("strokeTopWeight", d.individualStrokeWeights.top),
                             W("strokeRightWeight", d.individualStrokeWeights.right),
                             W("strokeBottomWeight", d.individualStrokeWeights.bottom),
                             W("strokeLeftWeight", d.individualStrokeWeights.left)>>
                      ELSE <<>>)
                  \o (IF HostHas(t, "strokeAlign") THEN Opt(d, "strokeAlign") ELSE <<>>)
                  \o (IF HostHas(t, "strokeCap") THEN Opt(d, "strokeCap") ELSE <<>>)
                  \o (IF HostHas(t, "strokeJoin") THEN Opt(d, "strokeJoin") ELSE <<>>)
                  \o (IF HostHas(t, "strokeMiterLimit")
                      THEN Opt(d, "strokeMiterLimit") ELSE <<>>)
                  \o (IF HostHas(t, "dashPattern") THEN Opt(d, "dashPattern") ELSE <<>>)

ApplyCornerRadius(t, d) ==
    IF ~HostHas(t, "cornerRadius") THEN <<>>
    ELSE (IF Has(d, "topLeftRadius") \/ Has(d, "topRightRadius")
             \/ Has(d, "bottomLeftRadius") \/ Has(d, "bottomRightRadius")
          THEN <<W("topLeftRadius", OrElse(d, "topLeftRadius", 0)),
                 W("topRightRadius", OrElse(d, "topRightRadius", 0)),
                 W("bottomLeftRadius", OrElse(d, "bottomLeftRadius", 0)),
                 W("bottomRightRadius", OrElse(d, "bottomRightRadius", 0))>>
          ELSE Opt(d, "cornerRadius"))
         \o (IF HostHas(t, "cornerSmoothing") THEN Opt(d, "cornerSmoothing") ELSE <<>>)

ApplyEffects(t, d) ==
    IF ~Has(d, "effects") \/ Len(d.effects) = 0 THEN <<>>
    ELSE LET validEffects == ToFigmaEffect(d.effects)
         IN  IF Len(validEffects) > 0 /\ HostHas(t, "effects")
             THEN <<W("effects", validEffects)>> ELSE <<>>

ApplySizeConstraints(t, d) ==
    IF ~HostHas(t, "minWidth") THEN <<>>
    ELSE Opt(d, "minWidth") \o Opt(d, "maxWidth")
         \o Opt(d, "minHeight") \o Opt(d, "maxHeight")

ApplyLayoutChildProperties(t, d) ==
    (IF HostHas(t, "layoutGrow") THEN Opt(d, "layoutGrow") ELSE <<>>)
    \o (IF HostHas(t, "layoutAlign") THEN Opt(d, "layoutAlign") ELSE <<>>)
    \o (IF HostHas(t, "layoutPositioning") THEN Opt(d, "layoutPositioning") ELSE <<>>)
    \o (IF HostHas(t, "layoutSizingHorizontal")
        THEN Opt(d, "layoutSizingHorizontal") ELSE <<>>)
    \o (IF HostHas(t, "layoutSizingVertical")
        THEN Opt(d, "layoutSizingVertical") ELSE <<>>)

\* applyCommonProperties with the effects applied ahead of the opacity
EffectsFirst(t, d) ==
    (IF HostHas(t, "effects") THEN ApplyEffects(t, d) ELSE <<>>)
    \o (IF Has(d, "opacity") /\ HostHas(t, "opacity")
        THEN <<W("opacity", Max(0, Min(100, d.opacity)))>> ELSE <<>>)
    \o (IF HostHas(t, "blendMode") THEN Opt(d, "blendMode") ELSE <<>>)
    \o Opt(d, "visible")
    \o Opt(d, "locked")
    \o (IF HostHas(t, "rotation") THEN Opt(d, "rotation") ELSE <<>>)
    \o (IF Has(d, "isMask") /\ d.isMask /\ HostHas(t, "isMask")
        THEN <<W("isMask", TRUE)>> ELSE <<>>)
    \o (IF HostHas(t, "constraints") THEN Opt(d, "constraints") ELSE <<>>)
    \o ApplySizeConstraints(t, d)
    \o ApplyLayoutChildProperties(t, d)

ApplyCommonProperties(t, d) ==
    (IF Has(d, "opacity") /\ HostHas(t, "opacity")
     THEN <<W("opacity", Max(0, Min(100, d.opacity)))>> ELSE <<>>)
    \o (IF HostHas(t, "blendMode") THEN Opt(d, "blendMode") ELSE <<>>)
    \o Opt(d, "visible")
    \o Opt(d, "locked")
    \o (IF HostHas(t, "rotation") THEN Opt(d, "rotation") ELSE <<>>)
    \o (IF Has(d, "isMask") /\ d.isMask /\ HostHas(t, "isMask")
        THEN <<W("isMask", TRUE)>> ELSE <<>>)
    \o (IF HostHas(t, "effects") THEN ApplyEffects(t, d) ELSE <<>>)
    \o (IF HostHas(t, "constraints") THEN Opt(d, "constraints") ELSE <<>>)
    \o ApplySizeConstraints(t, d)
    \o ApplyLayoutChildProperties(t, d)

AutoLayoutProps ==
    {"layoutMode", "primaryAxisSizingMode", "counterAxisSizingMode",
     "primaryAxisAlignItems", "counterAxisAlignItems", "itemSpacing",
     "counterAxisSpacing", "paddingTop", "paddingRight", "paddingBottom",
     "paddingLeft", "layoutWrap", "counterAxisAlignContent", "itemReverseZIndex"}

ApplyAutoLayout(t, d) ==
    IF ~Has(d, "layoutMode") \/ d.layoutMode = "NONE" THEN <<>>
    ELSE <<W("layoutMode", d.layoutMode)>>
         \o Opt(d, "primaryAxisSizingMode")
         \o Opt(d, "counterAxisSizingMode")
         \o Opt(d, "primaryAxisAlignItems")
         \o (IF Has(d, "counterAxisAlignItems")
                /\ d.counterAxisAlignItems # "BASELINE"
             THEN <<W("counterAxisAlignItems", d.counterAxisAlignItems)>> ELSE <<>>)
         \o Opt(d, "itemSpacing")
         \o Opt(d, "counterAxisSpacing")
         \o Opt(d, "paddingTop") \o Opt(d, "paddingRight")
         \o Opt(d, "paddingBottom") \o Opt(d, "paddingLeft")
         \o (IF HostHas(t, "layoutWrap") THEN Opt(d, "layoutWrap") ELSE <<>>)
         \o (IF HostHas(t, "counterAxisAlignContent")
             THEN Opt(d, "counterAxisAlignContent") ELSE <<>>)
         \o (IF Has(d, "itemReverseZIndex") /\ d.itemReverseZIndex
             THEN <<W("itemReverseZIndex", TRUE)>> ELSE <<>>)

ApplyFrameProperties(t, d) ==
    Opt(d, "clipsContent")
    \o (IF HostHas(t, "guides") THEN Opt(d, "guides") ELSE <<>>)
    \o Opt(d, "layoutGrids")

-----------------------------------------------------------------------------
(* The per-type construction strategies                                    *)

\* nodeData.name || fallback
NameOr(d, fallback) ==
    W("name", IF Has(d, "name") /\ d.name # "" THEN d.name ELSE fallback)

\* a property write the host rejected (the setter threw, the write is lost)
Rejected(p, v) == [p |-> p, v |-> v, rejected |-> TRUE]

\* hasChildren(nodeData): a non-empty children list
HasChildren(d) == Has(d, "children") /\ Len(d.children) > 0

\* nodeData.children && Array.isArray(nodeData.children)
ChildrenOf(d) == IF Has(d, "children") THEN d.children ELSE <<>>

\* FrameNodeCreator.create: the writes made before the children loop
FrameCreate(d) ==
    <<NameOr(d, "Frame")>>
    \o Resize(EnsureMinDimensions(d, 100))
    \o ApplyFills("FRAME", d)
    \o ApplyStrokes("FRAME", d)
    \o ApplyCornerRadius("FRAME", d)
    \o ApplyFrameProperties("FRAME", d)
    \o ApplyAutoLayout("FRAME", d)

\* FrameNodeCreator.createGroup
CreateGroup(d) ==
    <<NameOr(d, "Group")>>
    \o Resize(EnsureMinDimensions(d, 100))
    \o <<W("fills", <<>>), W("clipsContent", FALSE)>>

\* FrameNodeCreator.createSection
CreateSection(d) ==
    <<NameOr(d, "Section")>>
    \o (IF OrElse(d, "width", 0) # 0 /\ OrElse(d, "height", 0) # 0
        THEN <<W("resizeWithoutConstraints", <<d.width, d.height>>)>> ELSE <<>>)
    \o ApplyFills("SECTION", d)
    \o Opt(d, "sectionContentsHidden")

\* ComponentNodeCreator.create
ComponentCreate(d) ==
    <<NameOr(d, "Component")>>
    \o Resize(EnsureMinDimensions(d, 100))
    \o ApplyFills("COMPONENT", d)
    \o ApplyStrokes("COMPONENT", d)
    \o ApplyCornerRadius("COMPONENT", d)
    \o ApplyFrameProperties("COMPONENT", d)
    \o ApplyAutoLayout("COMPONENT", d)

\* RectangleNodeCreator.createAsFrame
CreateAsFrame(d) ==
    <<NameOr(d, "Rectangle")>>
    \o Resize(EnsureMinDimensions(d, 100))
    \o ApplyFills("FRAME", d)
    \o ApplyStrokes("FRAME", d)
    \o ApplyCornerRadius("FRAME", d)
    \o ApplyAutoLayout("FRAME", d)
    \o ApplyFrameProperties("FRAME", d)

\* RectangleNodeCreator.create
RectangleCreate(d) ==
    <<NameOr(d, "Rectangle")>>
    \o Resize(EnsureMinDimensions(d, 100))
    \o ApplyFills("RECTANGLE", d)
    \o ApplyStrokes("RECTANGLE", d)
    \o ApplyCornerRadius("RECTANGLE", d)

\* ShapeNodeCreator.createEllipse
CreateEllipse(d) ==
    <<NameOr(d, "Ellipse")>>
    \o Resize(EnsureMinDimensions(d, 100))
    \o ApplyFills("ELLIPSE", d)
    \o ApplyStrokes("ELLIPSE", d)
    \o Opt(d, "arcData")

PointCount(d) ==
    IF Has(d, "pointCount") /\ d.pointCount >= 3
    THEN <<W("pointCount", d.pointCount)>> ELSE <<>>

\* ShapeNodeCreator.createPolygon
CreatePolygon(d) ==
    <<NameOr(d, "Polygon")>>
    \o Resize(EnsureMinDimensions(d, 100))
    \o PointCount(d)
    \o ApplyFills("POLYGON", d)
    \o ApplyStrokes("POLYGON", d)

\* ShapeNodeCreator.createStar
CreateStar(d) ==
    <<NameOr(d, "Star")>>
    \o Resize(EnsureMinDimensions(d, 100))
    \o PointCount(d)
    \o Opt(d, "innerRadius")
    \o ApplyFills("STAR", d)
    \o ApplyStrokes("STAR", d)

\* ShapeNodeCreator.createLine
CreateLine(d) ==
    <<NameOr(d, "Line")>>
    \o <<W("resize", <<Max(1, OrElse(d, "width", 100)), 0>>)>>
    \o (IF Has(d, "strokes") /\ Len(d.strokes) > 0
        THEN ApplyStrokes("LINE", d)
        ELSE IF Has(d, "fills") /\ Len(d.fills) > 0
        THEN ApplyStrokes("LINE",
                 [strokes |-> d.fills, strokeWeight |-> OrElse(d, "strokeWeight", 1)]
                 @@ d)
        ELSE <<W("strokes", <<[type |-> "SOLID", color |-> [r |-> 0, g |-> 0, b |-> 0]]>>),
               W("strokeWeight", OrElse(d, "strokeWeight", 1))>>)
    \o Opt(d, "strokeCap")
    \o Opt(d, "strokeJoin")
    \o Opt(d, "dashPattern")

\* ShapeNodeCreator.applyVectorNetwork: the host network built from the data
ApplyVectorNetwork(network) ==
    [vertices |-> network.vertices,
     segments |-> network.segments,
     regions  |-> [i \in DOMAIN network.regions |->
                     LET r == network.regions[i]
                         region == [windingRule |-> r.windingRule, loops |-> r.loops]
                     IN  IF Has(r, "fills") /\ Len(r.fills) > 0
                            /\ Len(ToPaint(r.fills)) > 0
                         THEN region @@ [fills |-> ToPaint(r.fills)]
                         ELSE region]]

\* ShapeNodeCreator.createVector; hostAccepts: the host takes the geometry
\* it is handed (otherwise its setter throws)
CreateVector(d, hostAccepts) ==
    LET dim == EnsureMinDimensions(d, 24)
    IN  <<NameOr(d, "Vector")>>
        \o (IF Has(d, "vectorPaths") /\ Len(d.vectorPaths) > 0
            THEN IF hostAccepts
                 THEN <<W("vectorPaths", d.vectorPaths)>>
                 ELSE <<Rejected("vectorPaths", d.vectorPaths)>> \o Resize(dim)
            ELSE IF Has(d, "vectorNetwork")
            THEN IF hostAccepts
                 THEN <<W("vectorNetwork", ApplyVectorNetwork(d.vectorNetwork))>>
                 ELSE <<Rejected("vectorNetwork", ApplyVectorNetwork(d.vectorNetwork))>>
                      \o Resize(dim)
            ELSE Resize(dim))
        \o ApplyFills("VECTOR", d)
        \o ApplyStrokes("VECTOR", d)

\* FigmaNodeRepository.createSlice
CreateSlice(d) ==
    <<NameOr(d, "Slice")>> \o Resize(EnsureMinDimensions(d, 100))

-----------------------------------------------------------------------------
(* TextNodeCreator *)

\* DefaultFonts.INTER and DefaultFonts.ARIAL
DefaultFonts ==
    <<[family |-> "Inter", style |-> "Regular"],
      [family |-> "Arial", style |-> "Regular"]>>

\* a loadFont that tries the default fonts ahead of the requested one
DefaultsFirst(d) ==
    DefaultFonts \o (IF Has(d, "fontName") THEN <<d.fontName>> ELSE <<>>)

\* TextNodeCreator.loadFont: the candidates, in the order they are tried
FontCandidates(d) ==
    (IF Has(d, "fontName") THEN <<d.fontName>> ELSE <<>>) \o DefaultFonts

\* TextNodeCreator.applyTextAutoResize; hostHeight is textNode.height
ApplyTextAutoResize(d, hostHeight) ==
    LET hgt == IF hostHeight # 0 THEN hostHeight ELSE 1
        w == OrElse(d, "width", 0)
        h == OrElse(d, "height", 0)
    IN  IF Has(d, "textAutoResize")
        THEN <<W("textAutoResize", d.textAutoResize)>>
             \o (IF d.textAutoResize = "NONE" /\ w # 0 /\ h # 0
                 THEN <<W("resize", <<w, h>>)>>
                 ELSE IF d.textAutoResize = "HEIGHT" /\ w # 0
                 THEN <<W("resize", <<w, hgt>>)>>
                 ELSE <<>>)
        ELSE IF Has(d, "layoutAlign") \/ Has(d, "layoutGrow")
        THEN IF w > 0
             THEN <<W("textAutoResize", "HEIGHT"), W("resize", <<w, hgt>>)>>
             ELSE <<W("textAutoResize", "WIDTH_AND_HEIGHT")>>
        ELSE IF w # 0 /\ h # 0
             THEN <<W("textAutoResize", "NONE"), W("resize", <<w, h>>)>>
             ELSE IF w # 0
             THEN <<W("textAutoResize", "HEIGHT"), W("resize", <<w, hgt>>)>>
             ELSE <<W("textAutoResize", "WIDTH_AND_HEIGHT")>>

\* TextNodeCreator.applyLineHeight
ApplyLineHeight(d) ==
    IF ~Has(d, "lineHeight") THEN <<>>
    ELSE IF d.lineHeight.unit = "AUTO" THEN <<W("lineHeight", [unit |-> "AUTO"])>>
    ELSE IF d.lineHeight.unit \in {"PIXELS", "PERCENT"} /\ Has(d.lineHeight, "value")
    THEN <<W("lineHeight", [unit |-> d.lineHeight.unit, value |-> d.lineHeight.value])>>
    ELSE <<>>

\* TextNodeCreator.applyTextProperties
ApplyTextProperties(d, hostHeight) ==
    (IF Has(d, "fontSize") /\ d.fontSize > 0
     THEN <<W("fontSize", d.fontSize)>> ELSE <<>>)
    \o Opt(d, "textAlignHorizontal")
    \o Opt(d, "textAlignVertical")
    \o (IF Has(d, "textDecoration") /\ d.textDecoration # "NONE"
        THEN <<W("textDecoration", d.textDecoration)>> ELSE <<>>)
    \o (IF Has(d, "textCase") /\ d.textCase # "ORIGINAL"
        THEN <<W("textCase", d.textCase)>> ELSE <<>>)
    \o ApplyLineHeight(d)
    \o (IF Has(d, "letterSpacing") /\ Has(d.letterSpacing, "value")
        THEN <<W("letterSpacing",
                 [unit |-> IF Has(d.letterSpacing, "unit")
                           THEN d.letterSpacing.unit ELSE "PIXELS",
                  value |-> d.letterSpacing.value])>>
        ELSE <<>>)
    \o Opt(d, "paragraphIndent")
    \o Opt(d, "paragraphSpacing")
    \o Opt(d, "listSpacing")
    \o Opt(d, "hangingPunctuation")
    \o Opt(d, "hangingList")
    \o (IF Has(d, "leadingTrim") /\ d.leadingTrim # "NONE"
        THEN <<W("leadingTrim", d.leadingTrim)>> ELSE <<>>)
    \o (IF Has(d, "textTruncation") /\ d.textTruncation # "DISABLED"
        THEN <<W("textTruncation", d.textTruncation)>> ELSE <<>>)
    \o Opt(d, "maxLines")
    \o Opt(d, "hyperlink")
    \o ApplyTextAutoResize(d, hostHeight)

\* TextNodeCreator.create, after loadFont has returned fontToUse
TextCreate(d, fontToUse, hostHeight) ==
    <<W("fontName", fontToUse),
      W("characters", IF Has(d, "characters") THEN d.characters ELSE "")>>
    \o ApplyTextProperties(d, hostHeight)
    \o ApplyFills("TEXT", d)
    \o ApplyStrokes("TEXT", d)

-----------------------------------------------------------------------------
(* FigmaNodeRepository.createNodeByType: the strategy a node is handed to  *)

CreateNodeByType(d) ==
    LET nodeType == Normalize(d.type)
    IN  CASE nodeType = "FRAME" -> "FrameNodeCreator.create"
          [] nodeType = "GROUP" -> "FrameNodeCreator.createGroup"
          [] nodeType = "SECTION" -> "FrameNodeCreator.createSection"
          [] nodeType = "RECTANGLE" ->
                 IF HasChildren(d) THEN "RectangleNodeCreator.createAsFrame"
                 ELSE "RectangleNodeCreator.create"
          [] nodeType = "TEXT" -> "TextNodeCreator.create"
          [] nodeType = "ELLIPSE" -> "ShapeNodeCreator.createEllipse"
          [] nodeType = "POLYGON" -> "ShapeNodeCreator.createPolygon"
          [] nodeType = "STAR" -> "ShapeNodeCreator.createStar"
          [] nodeType = "LINE" -> "ShapeNodeCreator.createLine"
          [] nodeType = "VECTOR" -> "ShapeNodeCreator.createVector"
          [] nodeType = "COMPONENT" -> "ComponentNodeCreator.create"
          [] nodeType \in {"COMPONENT_SET", "INSTANCE"} -> "FrameNodeCreator.create"
          [] nodeType = "BOOLEAN_OPERATION" ->
                 "ComponentNodeCreator.createBooleanOperation"
          [] nodeType = "SLICE" -> "FigmaNodeRepository.createSlice"
          [] OTHER -> IF HasChildren(d) THEN "FrameNodeCreator.create"
                      ELSE "RectangleNodeCreator.create"

\* the strategies that run a children loop
ContainerStrategies ==
    {"FrameNodeCreator.create", "FrameNodeCreator.createGroup",
     "FrameNodeCreator.createSection", "RectangleNodeCreator.createAsFrame",
     "ComponentNodeCreator.create", "ComponentNodeCreator.createBooleanOperation"}

\* the strategies that accept an auto-layout configuration
AutoLayoutStrategies ==
    {"FrameNodeCreator.create", "RectangleNodeCreator.createAsFrame",
     "ComponentNodeCreator.create"}

\* the host node type a strategy allocates first (figma.createX)
Allocates(strategy) ==
    CASE strategy \in {"FrameNodeCreator.create", "FrameNodeCreator.createGroup",
                       "RectangleNodeCreator.createAsFrame",
                       "ComponentNodeCreator.createBooleanOperation"} -> "FRAME"
      [] strategy = "FrameNodeCreator.createSection" -> "SECTION"
      [] strategy = "ComponentNodeCreator.create" -> "COMPONENT"
      [] strategy = "RectangleNodeCreator.create" -> "RECTANGLE"
      [] strategy = "TextNodeCreator.create" -> "TEXT"
      [] strategy = "ShapeNodeCreator.createEllipse" -> "ELLIPSE"
      [] strategy = "ShapeNodeCreator.createPolygon" -> "POLYGON"
      [] strategy = "ShapeNodeCreator.createStar" -> "STAR"
      [] strategy = "ShapeNodeCreator.createLine" -> "LINE"
      [] strategy = "ShapeNodeCreator.createVector" -> "VECTOR"
      [] OTHER -> "SLICE"

\* the writes a strategy makes between allocating its node and its first
\* suspension point, children loop or return
FirstWrites(strategy, d, hostAccepts) ==
    CASE strategy = "FrameNodeCreator.create" -> FrameCreate(d)
      [] strategy = "FrameNodeCreator.createGroup" -> CreateGroup(d)
      [] strategy = "FrameNodeCreator.createSection" -> CreateSection(d)
      [] strategy = "RectangleNodeCreator.createAsFrame" -> CreateAsFrame(d)
      [] strategy = "ComponentNodeCreator.create" -> ComponentCreate(d)
      [] strategy = "ComponentNodeCreator.createBooleanOperation" ->
             <<W("name", "temp")>>
      [] strategy = "RectangleNodeCreator.create" -> RectangleCreate(d)
      [] strategy = "TextNodeCreator.create" -> <<NameOr(d, "Text")>>
      [] strategy = "ShapeNodeCreator.createEllipse" -> CreateEllipse(d)
      [] strategy = "ShapeNodeCreator.createPolygon" -> CreatePolygon(d)
      [] strategy = "ShapeNodeCreator.createStar" -> CreateStar(d)
      [] strategy = "ShapeNodeCreator.createLine" -> CreateLine(d)
      [] strategy = "ShapeNodeCreator.createVector" -> CreateVector(d, hostAccepts)
      [] OTHER -> CreateSlice(d)

-----------------------------------------------------------------------------
(* Host collaborator: the scene graph *)

\* a node as figma.createX() returns it: detached, with the host's defaults
NewNode(t) ==
    [type |-> t, parent |-> 0, children |-> <<>>, removed |-> FALSE,
     fault |-> "none", mixed |-> {},
     props |-> [name |-> "", x |-> 0, y |-> 0, width |-> 100, height |-> 100,
                visible |-> TRUE, locked |-> FALSE]
               @@ (IF t \in {"SLICE", "SECTION"} THEN <<>>
                   ELSE [opacity |-> 100, blendMode |-> "PASS_THROUGH",
                         isMask |-> FALSE, effects |-> <<>>, rotation |-> 0,
                         constraints |-> [horizontal |-> "MIN", vertical |-> "MIN"],
                         layoutAlign |-> "INHERIT", layoutGrow |-> 0,
                         layoutPositioning |-> "AUTO",
                         strokes |-> <<>>, strokeWeight |-> 1,
                         strokeAlign |-> "INSIDE"])
               @@ (IF t = "SLICE" THEN <<>> ELSE [fills |-> <<>>])
               @@ (IF t \in {"FRAME", "COMPONENT"}
                   THEN [layoutMode |-> "NONE", clipsContent |-> TRUE,
                         itemSpacing |-> 0, paddingTop |-> 0, paddingRight |-> 0,
                         paddingBottom |-> 0, paddingLeft |-> 0,
                         cornerRadius |-> 0]
                   ELSE <<>>)
               @@ (IF t = "RECTANGLE" THEN [cornerRadius |-> 0] ELSE <<>>)
               @@ (IF t = "TEXT"
                   THEN [characters |-> "", textAutoResize |-> "WIDTH_AND_HEIGHT"]
                   ELSE <<>>)]

\* the host's effect of one property write on a node's properties
SetProp(props, w) ==
    IF Has(w, "rejected") THEN props
    ELSE IF w.p \in {"resize", "resizeWithoutConstraints"}
    THEN [q \in DOMAIN props \cup {"width", "height"} |->
             IF q = "width" THEN w.v[1] ELSE IF q = "height" THEN w.v[2]
             ELSE props[q]]
    ELSE [q \in DOMAIN props \cup {w.p} |-> IF q = w.p THEN w.v ELSE props[q]]

RECURSIVE SetProps(_, _)
SetProps(props, ws) ==
    IF ws = <<>> THEN props ELSE SetProps(SetProp(props, Head(ws)), Tail(ws))

\* the host graph after the writes ws on node n
WriteAll(hst, n, ws) ==
    [hst EXCEPT ![n].props = SetProps(hst[n].props, ws)]

\* s without its element x
Without(s, x) == SelectSeq(s, LAMBDA y : y # x)

\* parent.appendChild(child): the child leaves its old parent, if any, and
\* becomes the last child of the new one
AppendChild(hst, parent, child) ==
    LET old == hst[child].parent
    IN  [n \in DOMAIN hst |->
            IF n = child THEN [hst[n] EXCEPT !.parent = parent]
            ELSE IF n = parent
            THEN [hst[n] EXCEPT !.children = Append(Without(hst[n].children, child), child)]
            ELSE IF n = old
            THEN [hst[n] EXCEPT !.children = Without(hst[n].children, child)]
            ELSE hst[n]]

\* the id the host gives the next node it allocates
NextId(hst) == Cardinality(DOMAIN hst) + 1

\* log entries: operation w on node n, made by the code at `by`
Entries(n, ws, by) == [i \in DOMAIN ws |-> ws[i] @@ [n |-> n, by |-> by]]

-----------------------------------------------------------------------------
(* The canonical documents handed to createNode *)

Solid(r, g, b) == [type |-> "SOLID", color |-> [r |-> r, g |-> g, b |-> b]]

\* cross-cutting properties of a node
CommonPart ==
    [opacity |-> 50, blendMode |-> "MULTIPLY", visible |-> TRUE, locked |-> TRUE,
     rotation |-> 90, isMask |-> TRUE,
     effects |-> <<[type |-> "LAYER_BLUR", visible |-> TRUE, radius |-> 4]>>,
     constraints |-> [horizontal |-> "MAX", vertical |-> "CENTER"],
     minWidth |-> 5, maxHeight |-> 500]

\* layout-participation properties of a child of an auto-layout container
LayoutChildPart ==
    [layoutGrow |-> 1, layoutAlign |-> "STRETCH", layoutPositioning |-> "ABSOLUTE",
     layoutSizingHorizontal |-> "FILL", layoutSizingVertical |-> "HUG"]

RectKid ==
    [name |-> "rect", type |-> "RECTANGLE", x |-> 10, y |-> 20,
     width |-> 30, height |-> 40,
     fills |-> <<Solid(Unit, 0, 0)>>, strokes |-> <<Solid(0, 0, 0)>>,
     strokeWeight |-> 2, cornerRadius |-> 4]
    @@ CommonPart @@ LayoutChildPart

TextReqKid ==
    [name |-> "label", type |-> "TEXT", x |-> 10, y |-> 70, width |-> 80,
     characters |-> "hello", fontName |-> [family |-> "Roboto", style |-> "Bold"],
     fontSize |-> 12, fills |-> <<Solid(0, 0, 0)>>,
     visible |-> TRUE, locked |-> FALSE, opacity |-> 90,
     layoutAlign |-> "STRETCH"]

TextDefKid ==
    [name |-> "plain", type |-> "text", x |-> 0, y |-> 0,
     characters |-> "plain", visible |-> TRUE, locked |-> FALSE]

Network ==
    [vertices |-> <<[x |-> 0, y |-> 0], [x |-> 8, y |-> 8]>>,
     segments |-> <<[start |-> 0, end |-> 1]>>,
     regions |-> <<[windingRule |-> "NONZERO", loops |-> <<<<0>>>>,
                    fills |-> <<Solid(0, Unit, 0)>>]>>]

VecBothKid ==
    [name |-> "icon", type |-> "VECTOR", x |-> 5, y |-> 5,
     width |-> 16, height |-> 16,
     vectorPaths |-> <<[windingRule |-> "NONZERO", data |-> "M 0 0 L 8 8 Z"]>>,
     vectorNetwork |-> Network,
     fills |-> <<Solid(0, 0, Unit)>>, visible |-> TRUE, locked |-> FALSE]

VecNetKid ==
    [name |-> "net", type |-> "VECTOR", x |-> 5, y |-> 5,
     vectorNetwork |-> Network, visible |-> TRUE, locked |-> FALSE]

VecBareKid ==
    [name |-> "bare", type |-> "VECTOR", x |-> 5, y |-> 5,
     width |-> 16, height |-> 16, visible |-> TRUE, locked |-> FALSE]

\* a nested container; its children list holds a JSON null
InnerKid ==
    [name |-> "inner", type |-> "frame", x |-> 0, y |-> 100,
     width |-> 120, height |-> 60, layoutMode |-> "HORIZONTAL", itemSpacing |-> 4,
     visible |-> TRUE, locked |-> FALSE, layoutGrow |-> 1,
     children |-> <<TextDefKid, Null, VecNetKid, VecBareKid>>]

Kids == {RectKid, TextReqKid, VecBothKid, InnerKid}

RootTypes ==
    {"FRAME", "GROUP", "COMPONENT", "INSTANCE", "COMPONENT_SET", "RECTANGLE",
     "SECTION", "BOOLEAN_OPERATION", "STICKY", "LINE", "blob"}

Root(type, kids) ==
    [name |-> "root", type |-> type, x |-> 100, y |-> 200,
     width |-> 200, height |-> 300,
     fills |-> <<Solid(Unit, Unit, Unit)>>,
     layoutMode |-> "HORIZONTAL", primaryAxisSizingMode |-> "AUTO",
     counterAxisAlignItems |-> "CENTER", itemSpacing |-> 8,
     paddingTop |-> 4, paddingLeft |-> 4, layoutWrap |-> "WRAP",
     clipsContent |-> FALSE,
     visible |-> TRUE, locked |-> FALSE, opacity |-> 80, minWidth |-> 10,
     children |-> kids]
    @@ (IF type = "BOOLEAN_OPERATION" THEN [booleanOperation |-> "SUBTRACT"]
        ELSE <<>>)

\* the kids the containers other than a FRAME are filled with
PlainKids == {RectKid, TextReqKid}

\* canonical node d with field f left unspecified
Unspecified(d, f) == [g \in DOMAIN d \ {f} |-> d[g]]

\* a rectangle that leaves its width and its layout participation
\* unspecified
NoWidthKid(name) ==
    [name |-> name, type |-> "RECTANGLE", x |-> 0, y |-> 0, height |-> 40,
     fills |-> <<Solid(0, 0, Unit)>>]

\* a vertical auto-layout container of two such rectangles
Column ==
    [name |-> "column", type |-> "FRAME", x |-> 0, y |-> 0,
     width |-> 200, height |-> 300,
     layoutMode |-> "VERTICAL", itemSpacing |-> 8,
     children |-> <<NoWidthKid("first"), NoWidthKid("second")>>]

Docs ==
    {Root("FRAME", kids) : kids \in SeqUpTo(Kids, MaxChildren)}
    \cup {Root(t, kids) : t \in RootTypes \ {"FRAME"},
                          kids \in SeqUpTo(PlainKids, MaxChildren - 1)}
    \cup {Unspecified(Root("BOOLEAN_OPERATION", kids), "booleanOperation") :
              kids \in SeqUpTo(PlainKids, MaxChildren - 1)}
    \cup {Column}

-----------------------------------------------------------------------------
(* The state machine of one createNode call *)

Pending == [status |-> "pending"]
Idle == [status |-> "idle"]
ReturnedNull == [status |-> "null"]
Returned(n) == [status |-> "node", node |-> n]

\* no export has been asked for yet
NotExported == [status |-> "none"]

\* a frame whose canonical node has had its type tag normalized in place
NormalizedInPlace(d, path) ==
    [d |-> [d EXCEPT !.type = Normalize(d.type)], h |-> 0, pc |-> "enter",
     i |-> 1, cand |-> 0, path |-> path, strategy |-> CreateNodeByType(d)]

\* a call-stack frame: createNodeByType(d) is running; h is the host node it
\* builds (0 before it is allocated), i the index of the next child, cand
\* the index of the font candidate being loaded, path the position of d in
\* the document
Frame(d, path) ==
    [d |-> d, h |-> 0, pc |-> "enter", i |-> 1, cand |-> 0, path |-> path,
     strategy |-> CreateNodeByType(d)]

Top == stack[Len(stack)]

SetTop(f) == [stack EXCEPT ![Len(stack)] = f]

Page == [NewNode("PAGE") EXCEPT !.props = [name |-> "Page 1"]]

Init ==
    /\ doc = Null
    /\ host = [n \in {PageId} |-> Page]
    /\ stack = <<>>
    /\ exc = FALSE
    /\ result = Idle
    /\ log = <<>>
    /\ exported = NotExported

\* FigmaNodeRepository.createNode(nodeData) is called, nodeData being one
\* of the documents D
CreateNodeFrom(D) ==
    /\ result = Idle
    /\ \E d \in D :
        /\ doc' = d
        /\ stack' = <<Frame(d, <<>>)>>
    /\ result' = Pending
    /\ UNCHANGED <<host, exc, log, exported>>

CreateNode == CreateNodeFrom(Docs)

\* a container strategy that configures auto-layout after its children loop
LateAutoLayout(strategy, d) ==
    IF strategy \in AutoLayoutStrategies
    THEN ApplyAutoLayout(Allocates(strategy), d) ELSE <<>>

\* what FrameNodeCreator.create, createGroup, createSection,
\* ComponentNodeCreator.create and RectangleNodeCreator.createAsFrame write
\* to their node after the children loop: nothing, they return it
LastWrites(strategy, d) == <<>>

\* a children loop that runs from the last child to the first
ChildFromEnd(children, i) == children[Len(children) + 1 - i]

\* the child the children loop takes at its i-th iteration (for ... of)
ChildAt(children, i) == children[i]

\* createNodeByType(d) starts: the strategy allocates its host node and
\* makes its first writes, up to its first await, its children loop or its
\* return
Enter ==
    /\ stack # <<>> /\ ~exc
    /\ Top.pc = "enter"
    /\ LET d == Top.d
           s == Top.strategy
           h == NextId(host)
       IN  \E hostAccepts \in (IF s = "ShapeNodeCreator.createVector"
                                  /\ (Has(d, "vectorPaths") \/ Has(d, "vectorNetwork"))
                               THEN BOOLEAN ELSE {TRUE}) :
            LET ws == FirstWrites(s, d, hostAccepts)
                fonts == FontCandidates(d)
            IN  /\ host' = WriteAll([n \in DOMAIN host \cup {h} |->
                                        IF n = h THEN NewNode(Allocates(s)) ELSE host[n]],
                                    h, ws)
                /\ log' = log \o <<[n |-> h, p |-> "create", v |-> Allocates(s), by |-> s,
                                    path |-> Top.path]>>
                              \o Entries(h, ws, s)
                              \o (IF s = "TextNodeCreator.create"
                                  THEN <<[n |-> h, p |-> "loadFontAsync", v |-> fonts[1],
                                          by |-> "TextNodeCreator.loadFont"]>>
                                  ELSE <<>>)
                /\ stack' = SetTop([Top EXCEPT
                                !.h = h,
                                !.cand = IF s = "TextNodeCreator.create" THEN 1 ELSE 0,
                                !.pc = IF s = "TextNodeCreator.create" THEN "font"
                                       ELSE IF s \in ContainerStrategies THEN "children"
                                       ELSE "exit"])
    /\ UNCHANGED <<doc, exc, result, exported>>

\* figma.loadFontAsync resolves: loadFont returns the candidate, and
\* TextNodeCreator.create runs to its return
FontLoadResolve ==
    /\ stack # <<>> /\ ~exc
    /\ Top.pc = "font"
    /\ LET d == Top.d
           h == Top.h
           font == FontCandidates(d)[Top.cand]
           ws == TextCreate(d, font, host[h].props.height)
       IN  /\ host' = WriteAll(host, h, ws)
           /\ log' = log \o <<[n |-> h, p |-> "fontLoaded", v |-> font,
                               by |-> "TextNodeCreator.loadFont"]>>
                         \o Entries(h, ws, "TextNodeCreator.create")
    /\ stack' = SetTop([Top EXCEPT !.pc = "exit"])
    /\ UNCHANGED <<doc, exc, result, exported>>

\* figma.loadFontAsync rejects: loadFont tries its next candidate; when the
\* last one (DefaultFonts.ARIAL) rejects, the rejection leaves loadFont
FontLoadReject ==
    /\ stack # <<>> /\ ~exc
    /\ Top.pc = "font"
    /\ LET fonts == FontCandidates(Top.d)
       IN  IF Top.cand < Len(fonts)
           THEN /\ stack' = SetTop([Top EXCEPT !.cand = @ + 1])
                /\ log' = Append(log, [n |-> Top.h, p |-> "loadFontAsync",
                                       v |-> fonts[Top.cand + 1],
                                       by |-> "TextNodeCreator.loadFont"])
                /\ exc' = FALSE
           ELSE /\ stack' = stack
                /\ log' = Append(log, [n |-> Top.h, p |-> "throw", v |-> fonts[Top.cand],
                                       by |-> "TextNodeCreator.loadFont"])
                /\ exc' = TRUE
    /\ UNCHANGED <<doc, host, result, exported>>

\* the children loop of a container strategy takes its next child: an
\* object is handed to createChild, which calls createNodeByType; anything
\* else is skipped
StartChild ==
    /\ stack # <<>> /\ ~exc
    /\ Top.pc = "children"
    /\ Top.i <= Len(ChildrenOf(Top.d))
    /\ LET child == ChildAt(ChildrenOf(Top.d), Top.i)
           parent == [Top EXCEPT !.i = @ + 1]
       IN  stack' = IF child = Null THEN SetTop(parent)
                    ELSE Append(SetTop(parent), Frame(child, Append(Top.path, Top.i)))
    /\ UNCHANGED <<doc, host, exc, result, log, exported>>

\* a strategy that, its children loop over, waits for a promise nobody
\* settles: it has no step left to take
NeverSettles ==
    /\ stack # <<>> /\ ~exc
    /\ FALSE
    /\ UNCHANGED vars

\* the children loop of a container strategy other than the boolean
\* operation is over: the strategy returns its node
FinishChildren ==
    /\ stack # <<>> /\ ~exc
    /\ Top.pc = "children"
    /\ Top.i > Len(ChildrenOf(Top.d))
    /\ Top.strategy # "ComponentNodeCreator.createBooleanOperation"
    /\ LET ws == LastWrites(Top.strategy, Top.d)
       IN  /\ host' = WriteAll(host, Top.h, ws)
           /\ log' = log \o Entries(Top.h, ws, Top.strategy)
    /\ stack' = SetTop([Top EXCEPT !.pc = "exit"])
    /\ UNCHANGED <<doc, exc, result, exported>>

\* figma.union / intersect / subtract / exclude (childNodes, parent): a new
\* boolean-operation node under parent that takes the child nodes over
HostCombine(hst, b, childNodes, parent, operation) ==
    [n \in DOMAIN hst \cup {b} |->
        IF n = b
        THEN [NewNode("BOOLEAN_OPERATION") EXCEPT
                 !.parent = parent, !.children = childNodes,
                 !.props = @ @@ [booleanOperation |-> operation]]
        ELSE IF n = parent THEN [hst[n] EXCEPT !.children = Append(@, b)]
        ELSE IF \E k \in DOMAIN childNodes : childNodes[k] = n
        THEN [hst[n] EXCEPT !.parent = b]
        ELSE IF \E k \in DOMAIN childNodes : hst[childNodes[k]].parent = n
        THEN [hst[n] EXCEPT !.children =
                 SelectSeq(@, LAMBDA c : \A k \in DOMAIN childNodes : childNodes[k] # c)]
        ELSE hst[n]]

\* a createBooleanOperation that unites whatever operator was asked for
AlwaysUnion(d) == "UNION"

\* the operator createBooleanOperation's switch calls
BooleanOperator(d) ==
    LET operation == IF Has(d, "booleanOperation") /\ d.booleanOperation # ""
                     THEN d.booleanOperation ELSE "UNION"
    IN  IF operation \in {"UNION", "INTERSECT", "SUBTRACT", "EXCLUDE"}
        THEN operation ELSE "UNION"

\* the host nodes createBooleanOperation collected from its temporary frame
ChildNodes(hst, f) == IF Has(f.d, "children") THEN hst[f.h].children ELSE <<>>

BooleanPending ==
    /\ stack # <<>> /\ ~exc
    /\ Top.pc = "children"
    /\ Top.i > Len(ChildrenOf(Top.d))
    /\ Top.strategy = "ComponentNodeCreator.createBooleanOperation"

\* createBooleanOperation, at least 2 children, the host combines them
BooleanCombine ==
    /\ BooleanPending
    /\ Len(ChildNodes(host, Top)) >= 2
    /\ LET d == Top.d
           temp == Top.h
           b == NextId(host)
           by == Top.strategy
           ws == <<NameOr(d, "Boolean")>>
                 \o ApplyFills("BOOLEAN_OPERATION", d)
                 \o ApplyStrokes("BOOLEAN_OPERATION", d)
       IN  /\ host' = [WriteAll(HostCombine(host, b, ChildNodes(host, Top), PageId,
                                            BooleanOperator(d)),
                                b, ws)
                       EXCEPT ![temp].removed = TRUE]
           /\ log' = log
                     \o <<[n |-> PageId, p |-> "currentPage", v |-> "read", by |-> by],
                          [n |-> b, p |-> "create", v |-> "BOOLEAN_OPERATION", by |-> by,
                           path |-> Top.path],
                          [n |-> PageId, p |-> "appendChild", v |-> b, by |-> by]>>
                     \o Entries(b, ws, by)
                     \o <<[n |-> temp, p |-> "remove", v |-> temp, by |-> by]>>
           /\ stack' = SetTop([Top EXCEPT !.h = b, !.pc = "exit"])
    /\ UNCHANGED <<doc, exc, result, exported>>

\* createBooleanOperation, at least 2 children, the host's operator throws:
\* the temporary frame is returned
BooleanFallback ==
    /\ BooleanPending
    /\ Len(ChildNodes(host, Top)) >= 2
    /\ LET d == Top.d
           by == Top.strategy
           ws == <<NameOr(d, "Boolean (fallback)")>>
                 \o Resize(EnsureMinDimensions(d, 100))
       IN  /\ host' = WriteAll(host, Top.h, ws)
           /\ log' = log
                     \o <<[n |-> PageId, p |-> "currentPage", v |-> "read", by |-> by]>>
                     \o Entries(Top.h, ws, by)
    /\ stack' = SetTop([Top EXCEPT !.pc = "exit"])
    /\ UNCHANGED <<doc, exc, result, exported>>

\* createBooleanOperation, fewer than 2 children: the temporary frame is
\* returned as a plain frame
BooleanEmpty ==
    /\ BooleanPending
    /\ Len(ChildNodes(host, Top)) < 2
    /\ LET d == Top.d
           ws == <<NameOr(d, "Boolean (empty)")>>
                 \o Resize(EnsureMinDimensions(d, 100))
                 \o ApplyFills("FRAME", d)
       IN  /\ host' = WriteAll(host, Top.h, ws)
           /\ log' = log \o Entries(Top.h, ws, Top.strategy)
    /\ stack' = SetTop([Top EXCEPT !.pc = "exit"])
    /\ UNCHANGED <<doc, exc, result, exported>>

\* the position writes of createChild and createNode
ApplyPosition(d) == Opt(d, "x") \o Opt(d, "y")

\* createNodeByType returned childNode to createChild, which positions it,
\* applies the common properties and appends it to the parent
CreateChild ==
    /\ Len(stack) >= 2 /\ ~exc
    /\ Top.pc = "exit"
    /\ LET d == Top.d
           child == Top.h
           parent == stack[Len(stack) - 1].h
           by == "FigmaNodeRepository.createChild"
           ws == ApplyPosition(d) \o ApplyCommonProperties(host[child].type, d)
       IN  /\ host' = AppendChild(WriteAll(host, child, ws), parent, child)
           /\ log' = log \o Entries(child, ws, by)
                         \o <<[n |-> parent, p |-> "appendChild", v |-> child, by |-> by]>>
    /\ stack' = SubSeq(stack, 1, Len(stack) - 1)
    /\ UNCHANGED <<doc, exc, result, exported>>

\* createNodeByType returned the top-level node to createNode, which
\* positions it, applies the common properties, appends it to the page and
\* returns it
CreateNodeReturn ==
    /\ Len(stack) = 1 /\ ~exc
    /\ Top.pc = "exit"
    /\ LET d == Top.d
           node == Top.h
           by == "FigmaNodeRepository.createNode"
           ws == ApplyPosition(d) \o ApplyCommonProperties(host[node].type, d)
       IN  /\ host' = AppendChild(WriteAll(host, node, ws), PageId, node)
           /\ log' = log \o Entries(node, ws, by)
                         \o <<[n |-> PageId, p |-> "currentPage", v |-> "read",
                               by |-> "FigmaNodeRepository.appendToPage"],
                              [n |-> PageId, p |-> "appendChild", v |-> node,
                               by |-> "FigmaNodeRepository.appendToPage"]>>
           /\ result' = Returned(node)
    /\ stack' = <<>>
    /\ UNCHANGED <<doc, exc, exported>>

\* an exception leaves the function on top of the call stack: neither
\* createNodeByType, a strategy's children loop nor createChild catches it
Propagate ==
    /\ exc
    /\ stack # <<>>
    /\ stack' = SubSeq(stack, 1, Len(stack) - 1)
    /\ UNCHANGED <<doc, host, exc, result, log, exported>>

\* the exception reaches createNode's catch: createNode returns null
CreateNodeCatch ==
    /\ exc
    /\ stack = <<>>
    /\ exc' = FALSE
    /\ result' = ReturnedNull
    /\ UNCHANGED <<doc, host, stack, log, exported>>

-----------------------------------------------------------------------------
(* NodeExporter (host -> canonical). A canonical record holds a key only   *)
(* when the exporter gives it a value other than undefined or null; an     *)
(* object spread  {...a, ...b}  is  b @@ a                                  *)

\* what a host node answers for a property the creators never wrote
HostDefault ==
    [fillStyleId |-> "", strokeStyleId |-> "", strokeMiterLimit |-> 4,
     strokeCap |-> "NONE", strokeJoin |-> "MITER", dashPattern |-> <<>>,
     cornerSmoothing |-> 0, effectStyleId |-> "",
     primaryAxisSizingMode |-> "AUTO", counterAxisSizingMode |-> "FIXED",
     primaryAxisAlignItems |-> "MIN", counterAxisAlignItems |-> "MIN",
     layoutWrap |-> "NO_WRAP", counterAxisAlignContent |-> "AUTO",
     itemReverseZIndex |-> FALSE, gridStyleId |-> "", layoutGrids |-> <<>>,
     guides |-> <<>>, layoutSizingHorizontal |-> "FIXED",
     layoutSizingVertical |-> "FIXED", sectionContentsHidden |-> FALSE,
     fontName |-> [family |-> "Inter", style |-> "Regular"], fontSize |-> 12,
     textAlignHorizontal |-> "LEFT", textAlignVertical |-> "TOP",
     lineHeight |-> [unit |-> "AUTO"],
     letterSpacing |-> [unit |-> "PERCENT", value |-> 0],
     textCase |-> "ORIGINAL", textDecoration |-> "NONE",
     paragraphIndent |-> 0, paragraphSpacing |-> 0, listSpacing |-> 0,
     hangingPunctuation |-> FALSE, hangingList |-> FALSE,
     leadingTrim |-> "NONE", textTruncation |-> "DISABLED", textStyleId |-> "",
     pointCount |-> 3, innerRadius |-> 38,
     booleanOperation |-> "UNION", vectorPaths |-> <<>>]

\* node.p
Get(node, p) == IF Has(node.props, p) THEN node.props[p] ELSE HostDefault[p]

\* node.p === null, for the properties the host leaves null until written
\* (minWidth, maxWidth, minHeight, maxHeight, counterAxisSpacing, maxLines,
\* hyperlink)
IsNull(node, p) == ~Has(node.props, p)

\* a host whose properties are never mixed
NeverMixed(node, p) == FALSE

\* node.p === figma.mixed
IsMixed(node, p) == p \in node.mixed

\* the record {k: v}, or {} when the exporter leaves k undefined
Fld(cond, k, v) == IF cond THEN k :> v ELSE <<>>

\* 10^n for the precisions roundValue is called with
Pow10(n) == CASE n = 0 -> 1 [] n = 1 -> 10 [] n = 2 -> 100 [] n = 3 -> 1000
              [] n = 4 -> 10000 [] OTHER -> 100000

\* NodeExporter.roundValue: Math.round(value * 10^precision) / 10^precision
RoundValue(value, precision) ==
    LET step == Unit \div Pow10(precision)
    IN  ((value + step \div 2) \div step) * step

\* NodeExporter.exportPaint; Null stands for the method's null
ExportPaint(paint) ==
    LET baseFill ==
            [type |-> paint.type]
            @@ Fld(paint.visible = FALSE, "visible", FALSE)
            @@ Fld(paint.opacity # 100, "opacity", paint.opacity)
            @@ Fld(paint.blendMode # "NORMAL", "blendMode", paint.blendMode)
    IN  CASE paint.type = "SOLID" ->
               [color |-> [r |-> RoundValue(paint.color.r, 4),
                           g |-> RoundValue(paint.color.g, 4),
                           b |-> RoundValue(paint.color.b, 4)]] @@ baseFill
          [] paint.type \in GradientTypes ->
               [gradientStops |->
                    [i \in DOMAIN paint.gradientStops |->
                        [position |-> paint.gradientStops[i].position,
                         color |-> [r |-> RoundValue(paint.gradientStops[i].color.r, 4),
                                    g |-> RoundValue(paint.gradientStops[i].color.g, 4),
                                    b |-> RoundValue(paint.gradientStops[i].color.b, 4),
                                    a |-> paint.gradientStops[i].color.a]]],
                gradientTransform |-> paint.gradientTransform] @@ baseFill
          [] paint.type = "IMAGE" ->
               [imageHash |-> paint.imageHash, scaleMode |-> paint.scaleMode]
               @@ Fld(Has(paint, "rotation") /\ paint.rotation # 0,
                      "rotation", paint.rotation)
               @@ baseFill
          [] paint.type = "VIDEO" ->
               [videoHash |-> paint.videoHash, scaleMode |-> paint.scaleMode]
               @@ baseFill
          [] OTHER -> Null

\* NodeExporter.exportFills; the empty sequence stands for undefined (the
\* method never returns an empty list); mixed: the paints are figma.mixed
ExportFills(paints, mixed) ==
    IF mixed \/ Len(paints) = 0 THEN <<>>
    ELSE DropNull([i \in DOMAIN paints |-> ExportPaint(paints[i])])

\* NodeExporter.exportEffects
ExportEffects(effects) ==
    [i \in DOMAIN effects |->
        LET effect == effects[i]
        IN  IF effect.type \in {"DROP_SHADOW", "INNER_SHADOW"}
            THEN Fld(effect.type = "DROP_SHADOW" /\ effect.showShadowBehindNode,
                     "showShadowBehindNode", TRUE)
                 @@ [type |-> effect.type, visible |-> effect.visible,
                     radius |-> effect.radius,
                     color |-> [r |-> RoundValue(effect.color.r, 4),
                                g |-> RoundValue(effect.color.g, 4),
                                b |-> RoundValue(effect.color.b, 4),
                                a |-> effect.color.a],
                     offset |-> [x |-> effect.offset.x, y |-> effect.offset.y],
                     spread |-> effect.spread, blendMode |-> effect.blendMode]
            ELSE [type |-> effect.type, visible |-> effect.visible,
                  radius |-> effect.radius]]

\* NodeExporter.getBaseProperties
GetBaseProperties(node) ==
    [name |-> node.props.name, type |-> node.type,
     x |-> node.props.x, y |-> node.props.y,
     width |-> node.props.width, height |-> node.props.height,
     visible |-> node.props.visible, locked |-> node.props.locked,
     relativeTransform |-> <<<<1, 0, node.props.x>>, <<0, 1, node.props.y>>>>]
    @@ Fld(HostHas(node.type, "rotation") /\ node.props.rotation # 0,
           "rotation", node.props.rotation)

\* the four per-side stroke weights: the host keeps them equal to
\* strokeWeight until one of them is written
SideWeight(node, side) ==
    IF Has(node.props, side) THEN node.props[side] ELSE node.props.strokeWeight

\* NodeExporter.getGeometryMixin
GetGeometryMixin(node) ==
    LET t == node.type
        fills == ExportFills(node.props.fills, IsMixed(node, "fills"))
        strokes == ExportFills(node.props.strokes, IsMixed(node, "strokes"))
    IN  Fld(fills # <<>>, "fills", fills)
        @@ Fld(~IsMixed(node, "fillStyleId") /\ Get(node, "fillStyleId") # "",
               "fillStyleId", Get(node, "fillStyleId"))
        @@ Fld(strokes # <<>>, "strokes", strokes)
        @@ Fld(Get(node, "strokeStyleId") # "", "strokeStyleId",
               Get(node, "strokeStyleId"))
        @@ Fld(~IsMixed(node, "strokeWeight") /\ node.props.strokeWeight > 0,
               "strokeWeight", node.props.strokeWeight)
        @@ Fld(HostHas(t, "strokeTopWeight")
               /\ \E side \in {"strokeTopWeight", "strokeRightWeight",
                               "strokeBottomWeight", "strokeLeftWeight"} :
                      SideWeight(node, side) # node.props.strokeWeight,
               "individualStrokeWeights",
               [top |-> SideWeight(node, "strokeTopWeight"),
                right |-> SideWeight(node, "strokeRightWeight"),
                bottom |-> SideWeight(node, "strokeBottomWeight"),
                left |-> SideWeight(node, "strokeLeftWeight")])
        @@ Fld(node.props.strokeAlign # "INSIDE", "strokeAlign",
               node.props.strokeAlign)
        @@ Fld(HostHas(t, "strokeCap") /\ ~IsMixed(node, "strokeCap")
               /\ Get(node, "strokeCap") # "NONE", "strokeCap", Get(node, "strokeCap"))
        @@ Fld(HostHas(t, "strokeJoin") /\ ~IsMixed(node, "strokeJoin")
               /\ Get(node, "strokeJoin") # "MITER", "strokeJoin",
               Get(node, "strokeJoin"))
        @@ Fld(HostHas(t, "strokeMiterLimit") /\ Get(node, "strokeMiterLimit") # 4,
               "strokeMiterLimit", Get(node, "strokeMiterLimit"))
        @@ Fld(HostHas(t, "dashPattern") /\ Len(Get(node, "dashPattern")) > 0,
               "dashPattern", Get(node, "dashPattern"))

\* NodeExporter.getStrokeMixin
GetStrokeMixin(node) ==
    LET strokes == ExportFills(node.props.strokes, IsMixed(node, "strokes"))
    IN  Fld(strokes # <<>>, "strokes", strokes)
        @@ Fld(~IsMixed(node, "strokeWeight") /\ node.props.strokeWeight > 0,
               "strokeWeight", node.props.strokeWeight)
        @@ Fld(node.props.strokeAlign # "INSIDE", "strokeAlign",
               node.props.strokeAlign)
        @@ Fld(HostHas(node.type, "dashPattern") /\ Len(Get(node, "dashPattern")) > 0,
               "dashPattern", Get(node, "dashPattern"))

SupportedEffects(effects) ==
    SelectSeq(effects, LAMBDA effect :
        effect.type \in {"DROP_SHADOW", "INNER_SHADOW", "LAYER_BLUR",
                         "BACKGROUND_BLUR"})

\* NodeExporter.getBlendMixin
GetBlendMixin(node) ==
    IF ~HostHas(node.type, "opacity") THEN <<>>
    ELSE Fld(node.props.opacity # 100, "opacity", node.props.opacity)
         @@ Fld(node.props.blendMode \notin {"PASS_THROUGH", "NORMAL"},
                "blendMode", node.props.blendMode)
         @@ Fld(node.props.isMask, "isMask", TRUE)
         @@ Fld(Len(node.props.effects) > 0
                /\ Len(SupportedEffects(node.props.effects)) > 0,
                "effects", ExportEffects(SupportedEffects(node.props.effects)))
         @@ Fld(Get(node, "effectStyleId") # "", "effectStyleId",
                Get(node, "effectStyleId"))

\* the host reports cornerRadius as figma.mixed once the four radii differ
CornerMixed(node) ==
    \/ IsMixed(node, "cornerRadius")
    \/ /\ Has(node.props, "topLeftRadius")
       /\ \E c \in {"topRightRadius", "bottomLeftRadius", "bottomRightRadius"} :
              node.props[c] # node.props.topLeftRadius

\* the radius of one corner
Corner(node, c) == IF Has(node.props, c) THEN node.props[c] ELSE node.props.cornerRadius

\* the uniform radius the host reports when the four radii agree
UniformRadius(node) ==
    IF Has(node.props, "topLeftRadius") THEN node.props.topLeftRadius
    ELSE node.props.cornerRadius

\* NodeExporter.getCornerMixin
GetCornerMixin(node) ==
    IF ~HostHas(node.type, "cornerRadius") THEN <<>>
    ELSE (IF CornerMixed(node)
          THEN Fld(Corner(node, "topLeftRadius") > 0, "topLeftRadius",
                   Corner(node, "topLeftRadius"))
               @@ Fld(Corner(node, "topRightRadius") > 0, "topRightRadius",
                      Corner(node, "topRightRadius"))
               @@ Fld(Corner(node, "bottomLeftRadius") > 0, "bottomLeftRadius",
                      Corner(node, "bottomLeftRadius"))
               @@ Fld(Corner(node, "bottomRightRadius") > 0, "bottomRightRadius",
                      Corner(node, "bottomRightRadius"))
          ELSE Fld(UniformRadius(node) > 0, "cornerRadius", UniformRadius(node)))
         @@ Fld(HostHas(node.type, "cornerSmoothing")
                /\ Get(node, "cornerSmoothing") > 0,
                "cornerSmoothing", Get(node, "cornerSmoothing"))

\* NodeExporter.getConstraintsMixin
GetConstraintsMixin(node) ==
    IF ~HostHas(node.type, "constraints") THEN <<>>
    ELSE Fld(node.props.constraints.horizontal # "MIN"
             \/ node.props.constraints.vertical # "MIN",
             "constraints",
             [horizontal |-> node.props.constraints.horizontal,
              vertical |-> node.props.constraints.vertical])

\* NodeExporter.getLayoutMixin
GetLayoutMixin(node) ==
    IF ~HostHas(node.type, "minWidth") THEN <<>>
    ELSE Fld(~IsNull(node, "minWidth"), "minWidth", node.props.minWidth)
         @@ Fld(~IsNull(node, "maxWidth"), "maxWidth", node.props.maxWidth)
         @@ Fld(~IsNull(node, "minHeight"), "minHeight", node.props.minHeight)
         @@ Fld(~IsNull(node, "maxHeight"), "maxHeight", node.props.maxHeight)

\* NodeExporter.getAutoLayoutMixin
GetAutoLayoutMixin(node) ==
    IF node.props.layoutMode = "NONE" THEN <<>>
    ELSE [layoutMode |-> node.props.layoutMode,
          primaryAxisSizingMode |-> Get(node, "primaryAxisSizingMode"),
          counterAxisSizingMode |-> Get(node, "counterAxisSizingMode"),
          primaryAxisAlignItems |-> Get(node, "primaryAxisAlignItems"),
          counterAxisAlignItems |-> Get(node, "counterAxisAlignItems")]
         @@ Fld(node.props.itemSpacing # 0, "itemSpacing", node.props.itemSpacing)
         @@ Fld(~IsNull(node, "counterAxisSpacing"), "counterAxisSpacing",
                node.props.counterAxisSpacing)
         @@ Fld(node.props.paddingTop # 0, "paddingTop", node.props.paddingTop)
         @@ Fld(node.props.paddingRight # 0, "paddingRight", node.props.paddingRight)
         @@ Fld(node.props.paddingBottom # 0, "paddingBottom", node.props.paddingBottom)
         @@ Fld(node.props.paddingLeft # 0, "paddingLeft", node.props.paddingLeft)
         @@ Fld(Get(node, "layoutWrap") # "NO_WRAP", "layoutWrap", Get(node, "layoutWrap"))
         @@ Fld(HostHas(node.type, "counterAxisAlignContent")
                /\ Get(node, "counterAxisAlignContent") # "AUTO",
                "counterAxisAlignContent", Get(node, "counterAxisAlignContent"))
         @@ Fld(Get(node, "itemReverseZIndex"), "itemReverseZIndex", TRUE)

\* NodeExporter.getLayoutChildMixin
GetLayoutChildMixin(node) ==
    LET t == node.type
    IN  Fld(HostHas(t, "layoutAlign") /\ node.props.layoutAlign # "INHERIT",
            "layoutAlign", node.props.layoutAlign)
        @@ Fld(HostHas(t, "layoutGrow") /\ node.props.layoutGrow # 0,
               "layoutGrow", node.props.layoutGrow)
        @@ Fld(HostHas(t, "layoutPositioning") /\ node.props.layoutPositioning # "AUTO",
               "layoutPositioning", node.props.layoutPositioning)
        @@ Fld(HostHas(t, "layoutSizingHorizontal"), "layoutSizingHorizontal",
               Get(node, "layoutSizingHorizontal"))
        @@ Fld(HostHas(t, "layoutSizingVertical"), "layoutSizingVertical",
               Get(node, "layoutSizingVertical"))

\* NodeExporter.getFrameSpecificProps
GetFrameSpecificProps(node) ==
    Fld(~node.props.clipsContent, "clipsContent", FALSE)
    @@ Fld(HostHas(node.type, "guides") /\ Len(Get(node, "guides")) > 0, "guides",
           [i \in DOMAIN Get(node, "guides") |->
               [axis |-> Get(node, "guides")[i].axis,
                offset |-> Get(node, "guides")[i].offset]])
    @@ Fld(Len(Get(node, "layoutGrids")) > 0, "layoutGrids",
           [i \in DOMAIN Get(node, "layoutGrids") |->
               LET grid == Get(node, "layoutGrids")[i]
                   gridDef == [pattern |-> grid.pattern, visible |-> grid.visible,
                               color |-> grid.color]
               IN  IF grid.pattern # "GRID"
                   THEN gridDef @@ [alignment |-> grid.alignment,
                                    gutterSize |-> grid.gutterSize,
                                    count |-> grid.count,
                                    sectionSize |-> grid.sectionSize,
                                    offset |-> grid.offset]
                   ELSE gridDef @@ [sectionSize |-> grid.sectionSize]])
    @@ Fld(Get(node, "gridStyleId") # "", "gridStyleId", Get(node, "gridStyleId"))

\* NodeExporter.getTextMixin
GetTextMixin(node) ==
    Fld(~IsMixed(node, "fontName"), "fontName",
        [family |-> Get(node, "fontName").family,
         style |-> Get(node, "fontName").style])
    @@ Fld(~IsMixed(node, "fontSize"), "fontSize", Get(node, "fontSize"))
    @@ [textAlignHorizontal |-> Get(node, "textAlignHorizontal"),
        textAlignVertical |-> Get(node, "textAlignVertical"),
        textAutoResize |-> node.props.textAutoResize]
    @@ Fld(~IsMixed(node, "lineHeight"), "lineHeight",
           IF Get(node, "lineHeight").unit # "AUTO"
           THEN [unit |-> Get(node, "lineHeight").unit,
                 value |-> Get(node, "lineHeight").value]
           ELSE [unit |-> "AUTO"])
    @@ Fld(~IsMixed(node, "letterSpacing"), "letterSpacing",
           [unit |-> Get(node, "letterSpacing").unit,
            value |-> Get(node, "letterSpacing").value])
    @@ Fld(~IsMixed(node, "textCase") /\ Get(node, "textCase") # "ORIGINAL",
           "textCase", Get(node, "textCase"))
    @@ Fld(~IsMixed(node, "textDecoration") /\ Get(node, "textDecoration") # "NONE",
           "textDecoration", Get(node, "textDecoration"))
    @@ Fld(Get(node, "paragraphIndent") # 0, "paragraphIndent",
           Get(node, "paragraphIndent"))
    @@ Fld(Get(node, "paragraphSpacing") # 0, "paragraphSpacing",
           Get(node, "paragraphSpacing"))
    @@ Fld(Get(node, "listSpacing") # 0, "listSpacing", Get(node, "listSpacing"))
    @@ Fld(Get(node, "hangingPunctuation"), "hangingPunctuation", TRUE)
    @@ Fld(Get(node, "hangingList"), "hangingList", TRUE)
    @@ Fld(~IsMixed(node, "leadingTrim") /\ Get(node, "leadingTrim") # "NONE",
           "leadingTrim", Get(node, "leadingTrim"))
    @@ Fld(Get(node, "textTruncation") # "DISABLED", "textTruncation",
           Get(node, "textTruncation"))
    @@ Fld(~IsNull(node, "maxLines"), "maxLines", node.props.maxLines)
    @@ Fld(~IsMixed(node, "hyperlink") /\ ~IsNull(node, "hyperlink"),
           "hyperlink", node.props.hyperlink)
    @@ Fld(~IsMixed(node, "textStyleId") /\ Get(node, "textStyleId") # "",
           "textStyleId", Get(node, "textStyleId"))

\* the vector network part of NodeExporter.exportVector
ExportVectorNetwork(network) ==
    [vertices |-> [i \in DOMAIN network.vertices |->
                      [x |-> network.vertices[i].x, y |-> network.vertices[i].y]],
     segments |-> [i \in DOMAIN network.segments |->
                      [start |-> network.segments[i].start,
                       end |-> network.segments[i].end]],
     regions |-> [i \in DOMAIN network.regions |->
                     LET r == network.regions[i]
                         fills == IF Has(r, "fills") THEN ExportFills(r.fills, FALSE)
                                  ELSE <<>>
                     IN  [windingRule |-> r.windingRule, loops |-> r.loops]
                         @@ Fld(fills # <<>>, "fills", fills)]]

\* the vector path part of NodeExporter.exportVector
ExportVectorPaths(paths) ==
    LET validPaths == SelectSeq(paths, LAMBDA path :
                          path.windingRule \in {"NONZERO", "EVENODD"})
    IN  [i \in DOMAIN validPaths |->
            [windingRule |-> validPaths[i].windingRule, data |-> validPaths[i].data]]

\* NodeExporter.buildDesignNode: the keys whose value is undefined or null
\* are dropped; such keys are never put into a record here
BuildDesignNode(props) == [key \in DOMAIN props |-> props[key]]

\* a children entry that is recorded whatever the list is, an empty one too
EmptyListKept(children) == [children |-> children]

\* the  children: this.exportChildren(node)  entry of a record: exportChildren
\* answers undefined for no children, and the key is then dropped
ChildrenField(children) == Fld(children # <<>>, "children", children)

\* NodeExporter.exportFrame, exportComponent and exportInstance
ExportFrame(node, baseProps, children) ==
    BuildDesignNode(ChildrenField(children)
                    @@ GetFrameSpecificProps(node) @@ GetConstraintsMixin(node)
                    @@ GetAutoLayoutMixin(node) @@ GetLayoutMixin(node)
                    @@ GetCornerMixin(node) @@ GetBlendMixin(node)
                    @@ GetGeometryMixin(node) @@ baseProps)

\* NodeExporter.exportGroup
ExportGroup(node, baseProps, children) ==
    BuildDesignNode(ChildrenField(children) @@ GetLayoutChildMixin(node)
                    @@ GetBlendMixin(node) @@ baseProps)

\* NodeExporter.exportComponentSet
ExportComponentSet(node, baseProps, children) ==
    BuildDesignNode(ChildrenField(children) @@ GetAutoLayoutMixin(node)
                    @@ GetBlendMixin(node) @@ GetGeometryMixin(node) @@ baseProps)

\* NodeExporter.exportSection
ExportSection(node, baseProps, children) ==
    LET fills == ExportFills(node.props.fills, IsMixed(node, "fills"))
    IN  BuildDesignNode(ChildrenField(children)
                        @@ [sectionContentsHidden |-> Get(node, "sectionContentsHidden")]
                        @@ Fld(fills # <<>>, "fills", fills) @@ baseProps)

\* NodeExporter.exportRectangle
ExportRectangle(node, baseProps) ==
    BuildDesignNode(GetLayoutChildMixin(node) @@ GetConstraintsMixin(node)
                    @@ GetCornerMixin(node) @@ GetBlendMixin(node)
                    @@ GetGeometryMixin(node) @@ baseProps)

\* NodeExporter.exportEllipse
ExportEllipse(node, baseProps) ==
    BuildDesignNode(Fld(Has(node.props, "arcData"), "arcData", node.props.arcData)
                    @@ GetLayoutChildMixin(node) @@ GetConstraintsMixin(node)
                    @@ GetBlendMixin(node) @@ GetGeometryMixin(node) @@ baseProps)

\* NodeExporter.exportPolygon
ExportPolygon(node, baseProps) ==
    BuildDesignNode([pointCount |-> Get(node, "pointCount")]
                    @@ GetLayoutChildMixin(node) @@ GetConstraintsMixin(node)
                    @@ GetBlendMixin(node) @@ GetGeometryMixin(node) @@ baseProps)

\* NodeExporter.exportStar
ExportStar(node, baseProps) ==
    BuildDesignNode([pointCount |-> Get(node, "pointCount"),
                     innerRadius |-> Get(node, "innerRadius")]
                    @@ GetLayoutChildMixin(node) @@ GetConstraintsMixin(node)
                    @@ GetBlendMixin(node) @@ GetGeometryMixin(node) @@ baseProps)

\* NodeExporter.exportLine
ExportLine(node, baseProps) ==
    BuildDesignNode(Fld(~IsMixed(node, "strokeCap"), "strokeCap", Get(node, "strokeCap"))
                    @@ Fld(~IsMixed(node, "strokeJoin"), "strokeJoin",
                           Get(node, "strokeJoin"))
                    @@ Fld(Len(Get(node, "dashPattern")) > 0, "dashPattern",
                           Get(node, "dashPattern"))
                    @@ GetLayoutChildMixin(node) @@ GetConstraintsMixin(node)
                    @@ GetBlendMixin(node) @@ GetStrokeMixin(node)
                    @@ [height |-> 0] @@ baseProps)

\* NodeExporter.exportVector; a failing read of the node's geometry is
\* caught inside the method and leaves the key undefined
ExportVector(node, baseProps) ==
    LET readable == node.fault # "vector"
        vectorPaths == IF readable THEN ExportVectorPaths(Get(node, "vectorPaths"))
                       ELSE <<>>
    IN  BuildDesignNode(Fld(vectorPaths # <<>>, "vectorPaths", vectorPaths)
                        @@ Fld(readable /\ Has(node.props, "vectorNetwork"),
                               "vectorNetwork",
                               ExportVectorNetwork(node.props.vectorNetwork))
                        @@ GetLayoutChildMixin(node) @@ GetConstraintsMixin(node)
                        @@ GetBlendMixin(node) @@ GetGeometryMixin(node) @@ baseProps)

\* NodeExporter.exportText
ExportText(node, baseProps) ==
    LET fills == ExportFills(node.props.fills, IsMixed(node, "fills"))
    IN  BuildDesignNode(Fld(fills # <<>>, "fills", fills)
                        @@ GetLayoutChildMixin(node) @@ GetConstraintsMixin(node)
                        @@ GetBlendMixin(node) @@ GetTextMixin(node)
                        @@ [characters |-> node.props.characters] @@ baseProps)

\* NodeExporter.exportBooleanOperation
ExportBooleanOperation(node, baseProps, children) ==
    BuildDesignNode(ChildrenField(children)
                    @@ [booleanOperation |-> Get(node, "booleanOperation")]
                    @@ GetBlendMixin(node) @@ GetGeometryMixin(node) @@ baseProps)

\* NodeExporter.exportSlice
ExportSlice(node, baseProps) == BuildDesignNode(baseProps)

\* NodeExporter.exportGeneric
ExportGeneric(node, baseProps, children) ==
    LET fills == IF HostHas(node.type, "fills") /\ Has(node.props, "fills")
                 THEN ExportFills(node.props.fills, IsMixed(node, "fills")) ELSE <<>>
        strokes == IF HostHas(node.type, "strokes") /\ Has(node.props, "strokes")
                   THEN ExportFills(node.props.strokes, IsMixed(node, "strokes"))
                   ELSE <<>>
    IN  BuildDesignNode(ChildrenField(children) @@ Fld(strokes # <<>>, "strokes", strokes)
                        @@ Fld(fills # <<>>, "fills", fills) @@ baseProps)

\* an exception on its way out of a method
Thrown == [thrown |-> TRUE]

\* the host node types that own a children list
ParentTypes ==
    {"FRAME", "GROUP", "COMPONENT", "COMPONENT_SET", "INSTANCE", "SECTION",
     "BOOLEAN_OPERATION", "TABLE"}

\* an export whose catch clause hands the exception on
Rethrow(r) == r

\* the catch clause of NodeExporter.export: the exception is logged and
\* null returned
Catch(r) == IF r = Thrown THEN Null ELSE r

RECURSIVE Export(_, _)
RECURSIVE ExportChildren(_, _)

\* NodeExporter.exportChildren: [thrown |-> an export of a child threw,
\* list |-> the exported children, empty standing for undefined]
ExportChildren(hst, node) ==
    LET exported_ == [i \in DOMAIN node.children |-> Export(hst, node.children[i])]
    IN  IF \E i \in DOMAIN exported_ : exported_[i] = Thrown
        THEN [thrown |-> TRUE, list |-> <<>>]
        ELSE [thrown |-> FALSE, list |-> DropNull(exported_)]

\* the try block of NodeExporter.export. A node's fault says which of its
\* property reads throws: "base" one that getBaseProperties makes, "mixin"
\* one that a capability extractor makes, "vector" the reads of its
\* geometry
TryExport(hst, n) ==
    LET node == hst[n]
        t == node.type
    IN  IF node.fault = "base" THEN Thrown
        ELSE IF node.fault = "mixin" /\ t # "SLICE" THEN Thrown
        ELSE LET baseProps == GetBaseProperties(node)
                 children == IF t \in ParentTypes THEN ExportChildren(hst, node)
                             ELSE [thrown |-> FALSE, list |-> <<>>]
             IN  IF children.thrown THEN Thrown
                 ELSE CASE t \in {"FRAME", "COMPONENT", "INSTANCE"} ->
                             ExportFrame(node, baseProps, children.list)
                        [] t = "GROUP" -> ExportGroup(node, baseProps, children.list)
                        [] t = "COMPONENT_SET" ->
                             ExportComponentSet(node, baseProps, children.list)
                        [] t = "RECTANGLE" -> ExportRectangle(node, baseProps)
                        [] t = "ELLIPSE" -> ExportEllipse(node, baseProps)
                        [] t = "POLYGON" -> ExportPolygon(node, baseProps)
                        [] t = "STAR" -> ExportStar(node, baseProps)
                        [] t = "LINE" -> ExportLine(node, baseProps)
                        [] t = "VECTOR" -> ExportVector(node, baseProps)
                        [] t = "TEXT" -> ExportText(node, baseProps)
                        [] t = "BOOLEAN_OPERATION" ->
                             ExportBooleanOperation(node, baseProps, children.list)
                        [] t = "SECTION" -> ExportSection(node, baseProps, children.list)
                        [] t = "SLICE" -> ExportSlice(node, baseProps)
                        [] OTHER -> ExportGeneric(node, baseProps, children.list)

\* NodeExporter.export
Export(hst, n) == Catch(TryExport(hst, n))

\* what a caller of export(n) observes
Outcome(hst, n) ==
    LET r == Export(hst, n)
    IN  IF r = Thrown THEN [status |-> "thrown", of |-> n]
        ELSE [status |-> "returned", of |-> n, value |-> r]

\* FigmaNodeRepository.exportAll hands a child of the page to
\* NodeExporter.export, while no createNode call is running
ExportAll ==
    /\ stack = <<>> /\ ~exc
    /\ result.status # "pending"
    /\ exported = NotExported
    /\ \E i \in DOMAIN host[PageId].children :
           exported' = Outcome(host, host[PageId].children[i])
    /\ UNCHANGED <<doc, host, stack, exc, result, log>>

-----------------------------------------------------------------------------
(* One createNode call, then one export *)

Next ==
    \/ CreateNode
    \/ Enter
    \/ FontLoadResolve
    \/ FontLoadReject
    \/ StartChild
    \/ FinishChildren
    \/ BooleanCombine
    \/ BooleanFallback
    \/ BooleanEmpty
    \/ CreateChild
    \/ CreateNodeReturn
    \/ Propagate
    \/ CreateNodeCatch
    \/ ExportAll

Spec == Init /\ [][Next]_vars

-----------------------------------------------------------------------------
(* Exports of a document that holds nodes whose property reads throw *)

\* the longest children list of a generated host container
MaxSiblings == 3

\* a host node of type t whose reads fail as `fault` says
Leaf(t, fault, id) ==
    [NewNode(t) EXCEPT !.fault = fault,
                       !.props = [name |-> "node" \o ToString(id)] @@ @]

\* <<type, fault>> of the children a generated container holds
ChildKinds ==
    ({"RECTANGLE"} \X {"none", "base", "mixin"})
    \cup ({"FRAME"} \X {"none", "mixin"})
    \cup {<<"TEXT", "none">>, <<"VECTOR", "vector">>, <<"SLICE", "mixin">>}

\* <<type, fault>> of the generated top-level containers
RootKinds == ({"FRAME", "GROUP"} \X {"none", "mixin"}) \cup {<<"TABLE", "none">>}

\* the scene graph: the page, under it node 2 of kind root, under that one
\* node per kind of kinds; a FRAME among them holds one more node, a
\* rectangle whose reads fail
HostTree(root, kinds) ==
    LET k == Len(kinds)
        inner == {i \in 1..k : kinds[i][1] = "FRAME"}
    IN  [n \in 1..(2 + 2 * k) |->
            IF n = PageId THEN [Page EXCEPT !.children = <<2>>]
            ELSE IF n = 2
            THEN [Leaf(root[1], root[2], n) EXCEPT
                     !.parent = PageId, !.children = [i \in 1..k |-> 2 + i]]
            ELSE IF n <= 2 + k
            THEN [Leaf(kinds[n - 2][1], kinds[n - 2][2], n) EXCEPT
                     !.parent = 2,
                     !.children = IF n - 2 \in inner THEN <<n + k>> ELSE <<>>]
            ELSE [Leaf("RECTANGLE", "mixin", n) EXCEPT
                     !.parent = IF n - 2 - k \in inner THEN n - k ELSE 0]]

HostTrees ==
    {HostTree(root, kinds) : root \in RootKinds,
                             kinds \in SeqUpTo(ChildKinds, MaxSiblings)}

InitExport ==
    /\ doc = Null
    /\ host \in HostTrees
    /\ stack = <<>>
    /\ exc = FALSE
    /\ result = Idle
    /\ log = <<>>
    /\ exported = NotExported

SpecExport == InitExport /\ [][ExportAll]_vars

-----------------------------------------------------------------------------
(* Properties of NodeExporter.export *)

\* extracting this node raises an exception
Raises(node) ==
    \/ node.fault = "base"
    \/ node.fault = "mixin" /\ node.type # "SLICE"

RECURSIVE Confined(_, _, _)
\* v is what export owes for node n: null when extracting n raises, else
\* a canonical node of n's name whose children are, in order, what export
\* owes for the children of n that do not raise
Confined(hst, n, v) ==
    IF Raises(hst[n]) THEN v = Null
    ELSE LET live == SelectSeq(hst[n].children, LAMBDA c : ~Raises(hst[c]))
         IN  /\ v # Null
             /\ v.name = hst[n].props.name
             /\ IF live = <<>> THEN ~Has(v, "children")
                ELSE /\ Has(v, "children")
                     /\ Len(v.children) = Len(live)
                     /\ \A i \in DOMAIN live : Confined(hst, live[i], v.children[i])

-----------------------------------------------------------------------------
(* Properties of FigmaNodeRepository.createNode, read off the log of host  *)
(* operations. The log only grows, so an order of operations that holds    *)
(* when the call has returned held at every moment of the call             *)

\* the createNode call has returned (and nothing was exported since: an
\* export leaves the log as it is)
Done == result.status \in {"node", "null"} /\ exported = NotExported

\* the operations that are no property write on a node
NotAWrite ==
    {"create", "appendChild", "loadFontAsync", "fontLoaded", "throw", "remove",
     "currentPage"}

IsWrite(e) == e.p \notin NotAWrite

\* the host nodes the call has allocated
Created == {log[k].n : k \in {j \in DOMAIN log : log[j].p = "create"}}

\* the log entry that allocated host node n
CreateEntry(n) == log[CHOOSE k \in DOMAIN log : log[k].p = "create" /\ log[k].n = n]

\* the position in the document of the canonical node n was built from
PathOf(n) == CreateEntry(n).path

RECURSIVE CanonAt(_, _)
\* the canonical node at a position of document d
CanonAt(d, path) ==
    IF path = <<>> THEN d ELSE CanonAt(d.children[Head(path)], Tail(path))

\* the canonical node host node n was built from
CanonOf(n) == CanonAt(doc, PathOf(n))

\* path q is a proper prefix of path r
Under(q, r) == Len(r) > Len(q) /\ SubSeq(r, 1, Len(q)) = q

\* the construction of host node n raised an exception
Threw(n) == \E k \in DOMAIN log : log[k].p = "throw" /\ log[k].n = n

\* C2 (as the specification states it): an exception raised while one child
\* is constructed is confined to that child; the createNode call still
\* returns the parent, and every other child of the document's root is
\* constructed and attached to it.
C2_ChildFailureConfined ==
    (Done /\ \E n \in Created : Threw(n) /\ PathOf(n) # <<>>) =>
        /\ result.status = "node"
        /\ \A j \in DOMAIN doc.children :
               (doc.children[j] # Null
                /\ ~\E n \in Created : Threw(n) /\ (PathOf(n) = <<j>> \/ Under(<<j>>, PathOf(n))))
               => \E c \in Created : PathOf(c) = <<j>> /\ host[c].parent = result.node

LayoutChildProps ==
    {"layoutGrow", "layoutAlign", "layoutPositioning", "layoutSizingHorizontal",
     "layoutSizingVertical"}

\* C4 (as the specification states it): a child's position is written
\* before it is appended to its parent, and its layout-participation
\* properties only after that append: no such property is written on a node
\* that has not been appended yet.
C4_LayoutChildAfterAppend ==
    \A k \in DOMAIN log :
        /\ log[k].p \in LayoutChildProps =>
               \E j \in 1..(k - 1) : log[j].p = "appendChild" /\ log[j].v = log[k].n
        /\ (log[k].p \in {"x", "y"} /\ log[k].by = "FigmaNodeRepository.createChild") =>
               ~\E j \in 1..(k - 1) : log[j].p = "appendChild" /\ log[j].v = log[k].n

\* the auto-layout configuration the claim C5 lists
LayoutConfig ==
    {"layoutMode", "primaryAxisSizingMode", "counterAxisSizingMode",
     "primaryAxisAlignItems", "counterAxisAlignItems", "itemSpacing",
     "counterAxisSpacing", "paddingTop", "paddingRight", "paddingBottom",
     "paddingLeft", "layoutWrap"}

\* C5: in the strategies that accept auto-layout, every auto-layout write
\* on a parent precedes the first append of a child to it, and at that
\* append the whole configuration the canonical node carries is written.
C5_LayoutBeforeChildren ==
    Done =>
        \A j \in DOMAIN log :
            (log[j].p = "appendChild" /\ log[j].by = "FigmaNodeRepository.createChild") =>
                /\ \A k \in DOMAIN log :
                       (log[k].n = log[j].n /\ log[k].p \in AutoLayoutProps) => k < j
                /\ (CreateEntry(log[j].n).by \in AutoLayoutStrategies
                    /\ Has(CanonOf(log[j].n), "layoutMode")
                    /\ CanonOf(log[j].n).layoutMode # "NONE") =>
                       \A f \in LayoutConfig \cap DOMAIN CanonOf(log[j].n) :
                           \E k \in 1..(j - 1) : log[k].n = log[j].n /\ log[k].p = f

\* C5 witness: a component that carries an auto-layout configuration was
\* built with two children
C5_Witness ==
    /\ result.status = "node"
    /\ CreateEntry(result.node).by = "ComponentNodeCreator.create"
    /\ host[result.node].props.layoutMode = "HORIZONTAL"
    /\ Len(host[result.node].children) = 2

\* the position of property p in the order `order`
Rank(order, p) == CHOOSE i \in DOMAIN order : order[i] = p

\* the property writes made on host node n, in the order they were made
WritesOn(n) == SelectSeq(log, LAMBDA e : e.n = n /\ IsWrite(e))

\* on each node, once a property of `order` has been written, every later
\* write is of a property that stands later in `order` (stated on each
\* write and the next one, which gives it for every later one)
WrittenLastInOrder(order) ==
    LET common == {order[i] : i \in DOMAIN order}
    IN  \A n \in Created :
            LET ws == WritesOn(n)
            IN  \A i \in 1..(Len(ws) - 1) :
                    ws[i].p \in common
                    => /\ ws[i + 1].p \in common
                       /\ Rank(order, ws[i].p) < Rank(order, ws[i + 1].p)

\* the order the specification gives for the common properties
SpecCommonOrder ==
    <<"opacity", "blendMode", "visible", "locked", "rotation", "isMask", "effects",
      "minWidth", "maxWidth", "minHeight", "maxHeight">>

CodeCommonOrder ==
    <<"opacity", "blendMode", "visible", "locked", "rotation", "isMask", "effects",
      "constraints", "minWidth", "maxWidth", "minHeight", "maxHeight",
      "layoutGrow", "layoutAlign", "layoutPositioning", "layoutSizingHorizontal",
      "layoutSizingVertical">>

C7_ChildrenSequential ==
    Done =>
        /\ \A k \in DOMAIN log :
               (log[k].p = "appendChild" /\ log[k].by = "FigmaNodeRepository.createChild") =>
                   LET c == log[k].v
                       q == SubSeq(PathOf(c), 1, Len(PathOf(c)) - 1)
                       a == PathOf(c)[Len(PathOf(c))]
                   IN  /\ host[c].props.name = CanonOf(c).name
                       /\ \A j \in DOMAIN log :
                              (log[j].p = "create" /\ Under(q, log[j].path)) =>
                                  IF log[j].path[Len(q) + 1] <= a THEN j < k ELSE k < j
        /\ \A n \in Created :
               ~host[n].removed =>
                   \A i \in DOMAIN host[n].children : \A j \in DOMAIN host[n].children :
                       i < j => LET pi == PathOf(host[n].children[i])
                                    pj == PathOf(host[n].children[j])
                                IN  pi[Len(pi)] < pj[Len(pj)]

\* C7 witness: a frame was returned whose children are a nested frame with
\* a text child (a font load inside the first child's subtree), a text and
\* a rectangle
C7_Witness ==
    /\ result.status = "node"
    /\ doc = Root("FRAME", <<InnerKid, TextReqKid, RectKid>>)
    /\ Len(host[result.node].children) = 3

\* C8 (as the specification states it): the current page is touched only by
\* the top-level entry point, once per createNode call that returns a node,
\* and only after the whole tree has been allocated; no construction
\* strategy reads or writes it.
C8_PageTouchedOnlyAtTopLevel ==
    /\ \A k \in DOMAIN log :
           log[k].n = PageId =>
               /\ log[k].by = "FigmaNodeRepository.appendToPage"
               /\ \A j \in DOMAIN log : log[j].p = "create" => j < k
    /\ result.status = "node" =>
           Cardinality({k \in DOMAIN log :
                           log[k].n = PageId /\ log[k].p = "appendChild"}) = 1

\* the fonts loadFontAsync was called with for text node n, in call order
Loads(n) ==
    LET calls == SelectSeq(log, LAMBDA e : e.n = n /\ e.p = "loadFontAsync")
    IN  [i \in DOMAIN calls |-> calls[i].v]

\* the chain the specification gives: the requested font when the canonical
\* node supplies one, the first default font, the second default font
FontChain(d) ==
    (IF Has(d, "fontName") THEN <<d.fontName>> ELSE <<>>)
    \o <<[family |-> "Inter", style |-> "Regular"],
         [family |-> "Arial", style |-> "Regular"]>>

\* C9: the fonts of a text node are tried in the order requested font (if
\* supplied), first default, second default; the first one that loads ends
\* the chain and is the node's font; the construction throws only when all
\* of them failed; the characters are written only after a font has loaded.
C9_FontChain ==
    Done =>
        \A n \in {m \in Created : CreateEntry(m).by = "TextNodeCreator.create"} :
            LET chain == FontChain(CanonOf(n))
                tried == Loads(n)
                loaded == {k \in DOMAIN log : log[k].n = n /\ log[k].p = "fontLoaded"}
            IN  /\ Len(tried) >= 1 /\ Len(tried) <= Len(chain)
                /\ tried = SubSeq(chain, 1, Len(tried))
                /\ Cardinality(loaded) <= 1
                /\ \A k \in loaded :
                       /\ log[k].v = tried[Len(tried)]
                       /\ host[n].props.fontName = tried[Len(tried)]
                       /\ \A j \in DOMAIN log :
                              (log[j].n = n /\ log[j].p = "loadFontAsync") => j < k
                /\ Threw(n) <=> loaded = {}
                /\ Threw(n) => tried = chain
                /\ \A k \in DOMAIN log :
                       (log[k].n = n /\ log[k].p = "characters") =>
                           \E j \in loaded : j < k

\* C9 witness: a text node that asked for a font got the second default
\* font, after the requested font and the first default font failed
C9_Witness ==
    /\ result.status = "node"
    /\ \E n \in Created :
        /\ host[n].type = "TEXT"
        /\ Has(CanonOf(n), "fontName")
        /\ Len(Loads(n)) = 3
        /\ host[n].props.fontName = [family |-> "Arial", style |-> "Regular"]
        /\ host[n].props.characters = CanonOf(n).characters

\* a write of property p on node n was attempted; accepted by the host
Attempted(n, p) == \E k \in DOMAIN log : log[k].n = n /\ log[k].p = p
Accepted(n, p) ==
    \E k \in DOMAIN log : log[k].n = n /\ log[k].p = p /\ ~Has(log[k], "rejected")

\* C10 (as the specification states it): a vector is given its path data
\* first; when the path data is absent or rejected by the host, its network
\* data; when that is absent or rejected too, it is left an empty
\* placeholder of the canonical size. Vector construction never fails, so
\* the container keeps one host child per canonical child.
C10_VectorFallbackChain ==
    Done =>
        /\ \A n \in {m \in Created : CreateEntry(m).by = "ShapeNodeCreator.createVector"} :
               LET d == CanonOf(n)
                   noPaths == ~Has(d, "vectorPaths") \/ ~Accepted(n, "vectorPaths")
                   noNetwork == ~Has(d, "vectorNetwork") \/ ~Accepted(n, "vectorNetwork")
               IN  /\ Has(d, "vectorPaths") => Attempted(n, "vectorPaths")
                   /\ (noPaths /\ Has(d, "vectorNetwork")) => Attempted(n, "vectorNetwork")
                   /\ (noPaths /\ noNetwork) =>
                          /\ Attempted(n, "resize")
                          /\ ~Has(host[n].props, "vectorPaths")
                          /\ ~Has(host[n].props, "vectorNetwork")
                   /\ ~Threw(n)
        /\ (result.status = "node" /\ ~\E m \in Created : Threw(m)
            /\ host[result.node].type # "BOOLEAN_OPERATION") =>
               Len(host[result.node].children) = Len(DropNull(doc.children))

RECURSIVE SameNode(_, _)
\* canonical node e is canonical node d again: the same type tag (up to
\* the tag's letter case), the same value for every field d carries, and
\* the same children in the same order
SameNode(d, e) ==
    /\ e # Null
    /\ e.type = ToUpperCase(d.type)
    /\ \A f \in DOMAIN d \ {"type", "children"} : Has(e, f) /\ e[f] = d[f]
    /\ LET kids == DropNull(ChildrenOf(d))
       IN  IF kids = <<>> THEN ~Has(e, "children")
           ELSE /\ Has(e, "children")
                /\ Len(e.children) = Len(kids)
                /\ \A i \in DOMAIN kids : SameNode(kids[i], e.children[i])

\* the type tags the specification counts as supported variants
SupportedTypes ==
    {"FRAME", "GROUP", "COMPONENT", "COMPONENT_SET", "INSTANCE", "SECTION",
     "RECTANGLE", "TEXT", "VECTOR", "BOOLEAN_OPERATION"}

\* C3 (as the specification states it): a canonical node of a supported
\* variant that is created and then exported comes back as it was: type tag
\* (GROUP, INSTANCE, COMPONENT_SET included), children order and fields.
C3_RoundTrip ==
    (/\ result.status = "node"
     /\ exported # NotExported
     /\ exported.of = result.node
     /\ ToUpperCase(doc.type) \in SupportedTypes)
    => /\ exported.status = "returned"
       /\ SameNode(doc, exported.value)

-----------------------------------------------------------------------------
(* Boolean operations *)

\* the temporary frame createBooleanOperation allocated for the document's
\* root
TempFrame ==
    CHOOSE n \in Created :
        /\ PathOf(n) = <<>>
        /\ CreateEntry(n).by = "ComponentNodeCreator.createBooleanOperation"
        /\ CreateEntry(n).v = "FRAME"

\* the host nodes that were built for the children of the boolean operation
BuiltChildren(temp) ==
    LET appends == SelectSeq(log, LAMBDA e : e.p = "appendChild" /\ e.n = temp)
    IN  [i \in DOMAIN appends |-> appends[i].v]

\* the operator the canonical node asks for, UNION when it names none
Requested(d) == IF Has(d, "booleanOperation") THEN d.booleanOperation ELSE "UNION"

\* a boolean-operation node was returned that combines the built children
\* with the requested operator
Combined(kids) ==
    /\ host[result.node].type = "BOOLEAN_OPERATION"
    /\ host[result.node].props.booleanOperation = Requested(doc)
    /\ host[result.node].children = kids

\* no boolean-operation node was allocated
NoOperatorInvoked ==
    ~\E k \in DOMAIN log : log[k].p = "create" /\ log[k].v = "BOOLEAN_OPERATION"

\* a createNode call for a boolean operation returned a node
BooleanBuilt ==
    /\ Done /\ result.status = "node"
    /\ ToUpperCase(doc.type) = "BOOLEAN_OPERATION"

\* C11 (as the specification states it): with at least 2 built children a
\* boolean-operation node combining them with the requested operator (UNION
\* when none is named) is returned; with fewer than 2, no operator is
\* invoked and a plain frame carrying the canonical fills is returned.
C11_BooleanAsStated ==
    BooleanBuilt =>
        LET kids == BuiltChildren(TempFrame)
        IN  IF Len(kids) >= 2 THEN Combined(kids)
            ELSE /\ NoOperatorInvoked
                 /\ result.node = TempFrame
                 /\ host[TempFrame].type = "FRAME"
                 /\ host[TempFrame].props.fills = ToPaint(doc.fills)

\* C11 (amended): with at least 2 built children the requested operator
\* (UNION when none is named) is invoked on them, and either the
\* boolean-operation node it yields is returned or, when the host's
\* operator throws, the temporary frame is returned with the children still
\* in it and without the canonical fills; with fewer than 2 children no
\* operator is invoked and the temporary frame is returned carrying the
\* canonical fills.
C11_Boolean ==
    BooleanBuilt =>
        LET kids == BuiltChildren(TempFrame)
        IN  IF Len(kids) >= 2
            THEN \/ Combined(kids) /\ host[TempFrame].removed
                 \/ /\ NoOperatorInvoked
                    /\ result.node = TempFrame
                    /\ host[TempFrame].children = kids
                    /\ host[TempFrame].props.fills = <<>>
            ELSE /\ NoOperatorInvoked
                 /\ result.node = TempFrame
                 /\ host[TempFrame].type = "FRAME"
                 /\ host[TempFrame].props.fills = ToPaint(doc.fills)

\* C11 witness: two children were united although the canonical node named
\* no operator
C11_Witness ==
    /\ BooleanBuilt
    /\ ~Has(doc, "booleanOperation")
    /\ Len(BuiltChildren(TempFrame)) = 2
    /\ host[result.node].type = "BOOLEAN_OPERATION"
    /\ host[result.node].props.booleanOperation = "UNION"

-----------------------------------------------------------------------------
(* Type tags *)

\* a type tag outside the closed tag set
Unrecognized(type) == ToUpperCase(type) \notin TYPE_MAP

\* C12 (as the specification states it): a canonical node with an
\* unrecognized type tag is built as a container when its children list is
\* non-empty and as a filled rectangle when it has no children; the tag
\* never makes the creation fail.
C12_UnknownType ==
    (Done /\ Unrecognized(doc.type)) =>
        /\ (~\E n \in Created : Threw(n)) => result.status = "node"
        /\ result.status = "node" =>
               IF HasChildren(doc)
               THEN host[result.node].type = "FRAME"
               ELSE /\ host[result.node].type = "RECTANGLE"
                    /\ host[result.node].props.fills = ToPaint(doc.fills)

\* the tags normalize is handed: every tag of the closed set, lower-case
\* and mixed-case spellings, the empty string and strings that are no tag
TagInputs ==
    TYPE_MAP
    \cup {"frame", "group", "text", "rectangle", "section", "vector", "slice",
          "table", "boolean_operation"}
    \cup {"Frame", "Group", "Text", "Component_Set"}
    \cup {"", "blob", "BLOB", "frame ", "Widget2"}

\* a tag is about to be normalized
InitNormalize ==
    /\ doc \in {[type |-> t] : t \in TagInputs}
    /\ host = [n \in {PageId} |-> Page]
    /\ stack = <<>>
    /\ exc = FALSE
    /\ result = Idle
    /\ log = <<>>
    /\ exported = NotExported

\* NodeTypeMapper.normalize(type) is called
NormalizeTag ==
    /\ result = Idle
    /\ result' = [status |-> "tag", tag |-> Normalize(doc.type)]
    /\ UNCHANGED <<doc, host, stack, exc, log, exported>>

\* NodeTypeMapper.normalize is called on the tag it returned
NormalizeAgain ==
    /\ result.status = "tag"
    /\ result' = [status |-> "again", tag |-> Normalize(result.tag), first |-> result.tag]
    /\ UNCHANGED <<doc, host, stack, exc, log, exported>>

NextNormalize == NormalizeTag \/ NormalizeAgain

SpecNormalize == InitNormalize /\ [][NextNormalize]_vars

\* C13: normalize returns a tag of the closed tag set for every input: the
\* upper-cased input when that is a recognized tag, FRAME otherwise; and
\* normalizing its result again returns the same tag.
C13_NormalizeTotal ==
    /\ result.status \in {"tag", "again"} =>
           /\ result.tag \in TYPE_MAP
           /\ result.tag = ToUpperCase(result.tag)
    /\ result.status = "tag" =>
           IF Unrecognized(doc.type) THEN result.tag = "FRAME"
           ELSE result.tag = ToUpperCase(doc.type)
    /\ result.status = "again" => result.tag = result.first

\* C13 witness: a mixed-case spelling was normalized to its tag, and an
\* unrecognized string to FRAME, and normalized again
C13_Witness ==
    /\ result.status = "again"
    /\ \/ doc.type = "Component_Set" /\ result.tag = "COMPONENT_SET"
       \/ doc.type = "Widget2" /\ result.tag = "FRAME"

\* the host types NodeExporter.export has a case for
DispatchTypes ==
    {"FRAME", "GROUP", "COMPONENT", "COMPONENT_SET", "INSTANCE", "RECTANGLE",
     "ELLIPSE", "POLYGON", "STAR", "LINE", "VECTOR", "TEXT", "BOOLEAN_OPERATION",
     "SECTION", "SLICE"}

\* C14 (as the specification states it): the export of a host node whose
\* type the export dispatch has no case for does not raise and yields a
\* canonical node whose type is the default tag FRAME.
C14_ExportGenericDefault ==
    (/\ exported # NotExported
     /\ host[exported.of].type \notin DispatchTypes
     /\ host[exported.of].fault = "none")
    => /\ exported.status = "returned"
       /\ exported.value # Null
       /\ exported.value.type = "FRAME"

-----------------------------------------------------------------------------
(* Defaults *)

\* the fields of a canonical node that say what and where it is, and not
\* how it deviates from a default
IdentityFields ==
    {"name", "type", "x", "y", "width", "height", "relativeTransform",
     "characters", "children"}

\* C15 (as the specification states it): the export of a host node whose
\* properties all equal their defaults carries no optional field. (Every
\* generated host node is as the host allocates it, but for its name.)
C15_DefaultsAbsent ==
    (exported # NotExported /\ exported.status = "returned" /\ exported.value # Null)
    => DOMAIN exported.value \subseteq IdentityFields

-----------------------------------------------------------------------------
(* The Fill codec on its own: a canonical fill is converted to a host      *)
(* paint, and the paint is exported again                                  *)

\* channel values below, inside, on the edge of and above [0,1]
Channels == {0 - Unit \div 2, 0, 12345, Unit, Unit + Unit \div 2}

\* the opacity of a canonical fill: absent, inside and outside [0,1] (in
\* hundredths), or not a number; a value that is not a number is carried
\* as opacityRaw, so that  typeof fill.opacity !== 'number'  reads
\* ~Has(fill, "opacity")
Opacities ==
    {<<>>, [opacity |-> 50], [opacity |-> 150], [opacity |-> 0 - 20],
     [opacityRaw |-> "0.5"]}

\* the alpha of a gradient stop: absent, inside and above [0,1]
Alphas == {<<>>, [a |-> 0], [a |-> Unit], [a |-> Unit + Unit \div 2]}

Identity2x3 == <<<<1, 0, 0>>, <<0, 1, 0>>>>

FillInputs ==
    {[type |-> "SOLID", color |-> [r |-> r, g |-> g, b |-> 0]] @@ o :
        r \in Channels, g \in {0, Unit + 1}, o \in Opacities}
    \cup {[type |-> "GRADIENT_LINEAR", gradientTransform |-> Identity2x3,
           gradientStops |-> <<[position |-> 0,
                                color |-> [r |-> r, g |-> 0, b |-> Unit] @@ a]>>] @@ o :
             r \in Channels, a \in Alphas, o \in {<<>>, [opacity |-> 150]}}
    \cup {[type |-> "SOLID"], [type |-> "GRADIENT_RADIAL"], [type |-> "EMOJI"],
          [type |-> "IMAGE", imageHash |-> "h", opacity |-> 150]}

InitFill ==
    /\ doc \in FillInputs
    /\ host = [n \in {PageId} |-> Page]
    /\ stack = <<>>
    /\ exc = FALSE
    /\ result = Idle
    /\ log = <<>>
    /\ exported = NotExported

\* FillMapper.toPaint is handed the fill (by applyFills)
FillToPaint ==
    /\ result = Idle
    /\ result' = [status |-> "paint", paints |-> ToPaint(<<doc>>)]
    /\ UNCHANGED <<doc, host, stack, exc, log, exported>>

\* NodeExporter.exportFills is handed the paints the node was given
PaintToFill ==
    /\ result.status = "paint"
    /\ result' = [status |-> "fill", paints |-> result.paints,
                  fills |-> ExportFills(result.paints, FALSE)]
    /\ UNCHANGED <<doc, host, stack, exc, log, exported>>

NextFill == FillToPaint \/ PaintToFill

SpecFill == InitFill /\ [][NextFill]_vars

\* a colour of a host paint or of a canonical fill lies in [0,1], alpha
\* included when the colour has one
InUnitRange(color) ==
    \A ch \in DOMAIN color : color[ch] >= 0 /\ color[ch] <= Unit

\* the colours of a paint (or fill): its colour, or those of its stops
ColorsOf(paint) ==
    (IF Has(paint, "color") THEN {paint.color} ELSE {})
    \cup (IF Has(paint, "gradientStops")
          THEN {paint.gradientStops[i].color : i \in DOMAIN paint.gradientStops}
          ELSE {})

\* C16 (as the specification states it): every colour channel of a host
\* paint the Fill codec produces lies in [0,1], and so does its opacity,
\* which is 1 when the canonical opacity is absent or no number; a channel
\* above 1 becomes 1 and is exported as 1.
C16_FillClamped ==
    /\ result.status \in {"paint", "fill"} =>
           \A i \in DOMAIN result.paints :
               LET paint == result.paints[i]
               IN  /\ \A c \in ColorsOf(paint) : InUnitRange(c)
                   /\ paint.opacity >= 0 /\ paint.opacity <= 100
                   /\ ~Has(doc, "opacity") => paint.opacity = 100
                   /\ (doc.type = "SOLID" /\ doc.color.r > Unit) => paint.color.r = Unit
    /\ result.status = "fill" =>
           \A i \in DOMAIN result.fills :
               /\ \A c \in ColorsOf(result.fills[i]) : InUnitRange(c)
               /\ (doc.type = "SOLID" /\ doc.color.r > Unit) =>
                      result.fills[i].color.r = Unit

-----------------------------------------------------------------------------
(* The Effect codec on its own: a canonical effect is converted to a host  *)
(* effect                                                                  *)

EffectInputs ==
    {[type |-> t, radius |-> 4, color |-> [r |-> r, g |-> 0, b |-> b] @@ a] :
        t \in {"DROP_SHADOW", "INNER_SHADOW"}, r \in Channels,
        b \in {0, Unit + 1}, a \in Alphas}
    \cup {[type |-> t, radius |-> 4] :
            t \in {"DROP_SHADOW", "INNER_SHADOW", "LAYER_BLUR",
                   "BACKGROUND_BLUR", "GLOW"}}

InitEffect ==
    /\ doc \in EffectInputs
    /\ host = [n \in {PageId} |-> Page]
    /\ stack = <<>>
    /\ exc = FALSE
    /\ result = Idle
    /\ log = <<>>
    /\ exported = NotExported

\* EffectMapper.toFigmaEffect is handed the effect (by applyEffects)
EffectToHost ==
    /\ result = Idle
    /\ result' = [status |-> "effect", effects |-> ToFigmaEffect(<<doc>>)]
    /\ UNCHANGED <<doc, host, stack, exc, log, exported>>

SpecEffect == InitEffect /\ [][EffectToHost]_vars

\* C17 (as the specification states it): every colour channel (r, g, b and
\* a) of a host shadow effect the Effect codec produces lies in [0,1],
\* whatever the channels of the canonical effect are.
C17_EffectClamped ==
    result.status = "effect" =>
        \A i \in DOMAIN result.effects :
            Has(result.effects[i], "color") => InUnitRange(result.effects[i].color)

-----------------------------------------------------------------------------
(* Host -> canonical: the exporter's own paint and effect export, and the  *)
(* to-canonical direction of the Fill and Effect codecs                    *)

\* ColorFactory.round: each channel rounded to 4 decimal digits
ColorRound(color) == [ch \in DOMAIN color |-> RoundValue(color[ch], 4)]

\* FillMapper.mapGradientStops: Math.round(x * 1000) / 1000 on r, g, b
MapGradientStops(stops) ==
    [i \in DOMAIN stops |->
        [position |-> stops[i].position,
         color |-> [r |-> RoundValue(stops[i].color.r, 3),
                    g |-> RoundValue(stops[i].color.g, 3),
                    b |-> RoundValue(stops[i].color.b, 3),
                    a |-> stops[i].color.a]]]

\* FillMapper.mapPaintToFill (solid and gradient paints)
MapPaintToFill(paint) ==
    LET baseFill ==
            [type |-> paint.type]
            @@ Fld(paint.visible = FALSE, "visible", FALSE)
            @@ Fld(paint.opacity # 100, "opacity", paint.opacity)
            @@ Fld(paint.blendMode # "NORMAL", "blendMode", paint.blendMode)
    IN  CASE paint.type = "SOLID" ->
               [color |-> ColorRound(paint.color)] @@ baseFill
          [] paint.type \in GradientTypes ->
               [gradientStops |-> MapGradientStops(paint.gradientStops),
                gradientTransform |-> paint.gradientTransform] @@ baseFill
          [] OTHER -> Null

\* EffectMapper.mapToEntity
MapToEntity(effect) ==
    CASE effect.type \in {"DROP_SHADOW", "INNER_SHADOW"} ->
           Fld(effect.type = "DROP_SHADOW" /\ effect.showShadowBehindNode,
               "showShadowBehindNode", TRUE)
           @@ [type |-> effect.type, visible |-> effect.visible,
               radius |-> effect.radius,
               color |-> [r |-> RoundValue(effect.color.r, 3),
                          g |-> RoundValue(effect.color.g, 3),
                          b |-> RoundValue(effect.color.b, 3),
                          a |-> effect.color.a],
               offset |-> [x |-> effect.offset.x, y |-> effect.offset.y],
               spread |-> effect.spread, blendMode |-> effect.blendMode]
      [] effect.type \in {"LAYER_BLUR", "BACKGROUND_BLUR"} ->
           [type |-> effect.type, visible |-> effect.visible,
            radius |-> effect.radius]
      [] OTHER -> Null

\* channel values the host holds: within [0,1], with more than 4 digits
HostChannels == {0, 12345, 50000, 99996, Unit}

HostPaints ==
    {[type |-> "SOLID", visible |-> TRUE, opacity |-> 100,
      blendMode |-> "NORMAL", color |-> [r |-> r, g |-> g, b |-> 0]] :
        r \in HostChannels, g \in HostChannels}
    \cup {[type |-> "GRADIENT_LINEAR", visible |-> TRUE, opacity |-> 50,
           blendMode |-> "NORMAL", gradientTransform |-> Identity2x3,
           gradientStops |-> <<[position |-> 0,
                                color |-> [r |-> r, g |-> 0, b |-> Unit, a |-> a]]>>] :
             r \in HostChannels, a \in HostChannels}

HostEffects ==
    {[type |-> t, visible |-> TRUE, radius |-> 4,
      color |-> [r |-> r, g |-> 0, b |-> Unit, a |-> a],
      offset |-> [x |-> 0, y |-> 4], spread |-> 0, blendMode |-> "NORMAL",
      showShadowBehindNode |-> FALSE] :
        t \in {"DROP_SHADOW", "INNER_SHADOW"}, r \in HostChannels, a \in HostChannels}
    \cup {[type |-> "LAYER_BLUR", visible |-> TRUE, radius |-> 4]}

InitCanonical ==
    /\ doc \in HostPaints \cup HostEffects
    /\ host = [n \in {PageId} |-> Page]
    /\ stack = <<>>
    /\ exc = FALSE
    /\ result = Idle
    /\ log = <<>>
    /\ exported = NotExported

\* NodeExporter.exportFills on the paints of a host node
ExporterPaint ==
    /\ result = Idle /\ doc \in HostPaints
    /\ result' = [status |-> "canonical", values |-> ExportFills(<<doc>>, FALSE)]
    /\ UNCHANGED <<doc, host, stack, exc, log, exported>>

\* FillMapper.toEntity on the same paints
CodecPaint ==
    /\ result = Idle /\ doc \in HostPaints
    /\ result' = [status |-> "canonical",
                  values |-> DropNull(<<MapPaintToFill(doc)>>)]
    /\ UNCHANGED <<doc, host, stack, exc, log, exported>>

\* NodeExporter.exportEffects on the effects of a host node
ExporterEffect ==
    /\ result = Idle /\ doc \in HostEffects
    /\ result' = [status |-> "canonical", values |-> ExportEffects(<<doc>>)]
    /\ UNCHANGED <<doc, host, stack, exc, log, exported>>

\* EffectMapper.toEntity on the same effects
CodecEffect ==
    /\ result = Idle /\ doc \in HostEffects
    /\ result' = [status |-> "canonical",
                  values |-> DropNull(<<MapToEntity(doc)>>)]
    /\ UNCHANGED <<doc, host, stack, exc, log, exported>>

NextCanonical == ExporterPaint \/ CodecPaint \/ ExporterEffect \/ CodecEffect

SpecCanonical == InitCanonical /\ [][NextCanonical]_vars

\* a colour whose every channel is a multiple of 0.0001
FourDigits(color) ==
    \A ch \in DOMAIN color : color[ch] % (Unit \div Pow10(4)) = 0

\* C18 (as the specification states it): every colour channel of every
\* fill, gradient stop and shadow effect of a canonical value produced from
\* host state lies in [0,1] and is rounded to 4 decimal digits, whichever
\* conversion produced it.
C18_CanonicalChannels ==
    result.status = "canonical" =>
        \A i \in DOMAIN result.values :
            \A c \in ColorsOf(result.values[i]) : InUnitRange(c) /\ FourDigits(c)

-----------------------------------------------------------------------------
(* The canonical input of a create call *)

\* every running createNodeByType(d) sees, through its nodeData reference,
\* the canonical node that was at its position when createNode was called
InputAsGiven ==
    \A k \in DOMAIN stack : stack[k].d = CanonAt(doc, stack[k].path)

\* C19: the Creator never writes to the canonical tree it is given: from
\* the call of createNode on, through every step of the creation (also one
\* that falls back or fails) and every later step, the tree stays equal to
\* what was handed in, and every node the Creator is working on is the
\* canonical node that was handed in at that position.
C19_InputNeverWritten ==
    /\ []InputAsGiven
    /\ [][result # Idle => doc' = doc]_vars

\* a creation of a tree at least three levels deep has finished
C19_Witness ==
    /\ Done /\ result.status = "node" /\ HasChildren(doc)
    /\ \E i \in DOMAIN doc.children :
           doc.children[i] # Null /\ HasChildren(doc.children[i])

-----------------------------------------------------------------------------
(* Exported children *)

\* the children recorded in the canonical node v
RecordedChildren(v) == IF Has(v, "children") THEN v.children ELSE <<>>

\* the children of host node n whose name is that of the canonical node c
\* (host nodes of one container carry distinct names here)
NamedAs(hst, n, c) ==
    {i \in DOMAIN hst[n].children : hst[hst[n].children[i]].props.name = c.name}

\* v, the canonical node exported for host node n, records the exports of
\* n's children that are not null, each once, in the order n holds its
\* children, and records no children field when there is none of them
ChildrenInHostOrder(hst, n, v) ==
    LET kids == hst[n].children
        list == RecordedChildren(v)
    IN  /\ \A j \in DOMAIN list :
               /\ list[j] # Null
               /\ \E i \in NamedAs(hst, n, list[j]) : list[j] = Export(hst, kids[i])
        /\ \A j \in DOMAIN list : \A k \in DOMAIN list :
               j < k => \A a \in NamedAs(hst, n, list[j]) :
                            \A b \in NamedAs(hst, n, list[k]) : a < b
        /\ \A i \in DOMAIN kids :
               Export(hst, kids[i]) # Null =>
                   \E j \in DOMAIN list : i \in NamedAs(hst, n, list[j])
        /\ Has(v, "children") => Len(v.children) > 0
        /\ (\A i \in DOMAIN kids : Export(hst, kids[i]) = Null) => ~Has(v, "children")

\* C20: the children a container is exported with are the exports of its
\* host children in host order, those that exported as null left out; the
\* children field is absent, never an empty list, when the container has
\* no child or every child exported as null; and so on every level.
C20_ChildrenInHostOrder ==
    (exported.status = "returned" /\ exported.value # Null) =>
        /\ ChildrenInHostOrder(host, exported.of, exported.value)
        /\ \A i \in DOMAIN host[exported.of].children :
               LET c == host[exported.of].children[i]
               IN  Export(host, c) # Null =>
                       ChildrenInHostOrder(host, c, Export(host, c))

\* a container of three children was exported with the first and the third,
\* the second having exported as null; so was one whose only child's own
\* child exported as null
C20_Witness ==
    /\ exported.status = "returned" /\ exported.value # Null
    /\ LET kids == host[exported.of].children
       IN  /\ Len(kids) = 3
           /\ Export(host, kids[2]) = Null
           /\ Has(exported.value, "children")
           /\ Len(exported.value.children) = 2
           /\ exported.value.children[1].name = host[kids[1]].props.name
           /\ exported.value.children[2].name = host[kids[3]].props.name
           /\ host[kids[3]].children # <<>>
           /\ ~Has(exported.value.children[2], "children")

-----------------------------------------------------------------------------
(* Export of nodes some of whose properties the host reports as mixed     *)

\* the properties the exporter reads that the host can report as
\* figma.mixed, by node type
MixableProps(t) ==
    CASE t = "TEXT" ->
           {"fills", "fontName", "fontSize", "lineHeight", "letterSpacing",
            "textCase", "textDecoration", "leadingTrim", "hyperlink", "textStyleId"}
      [] t \in {"RECTANGLE", "FRAME"} ->
           {"fills", "fillStyleId", "strokeWeight", "cornerRadius"}
      [] t = "VECTOR" ->
           {"fills", "fillStyleId", "strokeWeight", "strokeCap", "strokeJoin"}
      [] t = "LINE" -> {"strokeWeight", "strokeCap"}
      [] OTHER -> {}

\* what the properties hold on part of the node (none of them a default, so
\* that a property is not left out for being one)
Styled ==
    [fills |-> <<[type |-> "SOLID", visible |-> TRUE, opacity |-> 100,
                  blendMode |-> "NORMAL", color |-> [r |-> Unit, g |-> 0, b |-> 0]]>>,
     fillStyleId |-> "S:fill", strokeWeight |-> 2, cornerRadius |-> 4,
     strokeCap |-> "ROUND", strokeJoin |-> "BEVEL",
     fontName |-> [family |-> "Roboto", style |-> "Bold"], fontSize |-> 20,
     lineHeight |-> [unit |-> "PIXELS", value |-> 24],
     letterSpacing |-> [unit |-> "PIXELS", value |-> 1],
     textCase |-> "UPPER", textDecoration |-> "UNDERLINE",
     leadingTrim |-> "CAP_HEIGHT",
     hyperlink |-> [type |-> "URL", value |-> "https://example.org"],
     textStyleId |-> "S:text"]

\* a host node of type t that reports the properties of m as mixed; a
\* mixed strokeWeight comes with sides that differ
MixedNode(t, m) ==
    [NewNode(t) EXCEPT
        !.parent = PageId,
        !.mixed = m,
        !.props = [p \in MixableProps(t) |-> Styled[p]]
                  @@ (IF "strokeWeight" \in m /\ HostHas(t, "strokeTopWeight")
                      THEN [strokeTopWeight |-> 1, strokeRightWeight |-> 2,
                            strokeBottomWeight |-> 2, strokeLeftWeight |-> 2]
                      ELSE <<>>)
                  @@ [name |-> "node2"] @@ @]

MixedTypes == {"TEXT", "RECTANGLE", "FRAME", "VECTOR", "LINE"}

InitMixed ==
    /\ doc = Null
    /\ \E t \in MixedTypes :
         \E m \in {s \in SUBSET MixableProps(t) : Cardinality(s) <= 2} :
            host = [n \in {PageId, 2} |->
                       IF n = PageId THEN [Page EXCEPT !.children = <<2>>]
                       ELSE MixedNode(t, m)]
    /\ stack = <<>>
    /\ exc = FALSE
    /\ result = Idle
    /\ log = <<>>
    /\ exported = NotExported

SpecMixed == InitMixed /\ [][ExportAll]_vars

\* C21: a property the host reports as mixed is absent from the canonical
\* node exported for the host node, whichever property it is; the export
\* itself succeeds.
C21_MixedAbsent ==
    exported.status = "returned" =>
        /\ exported.value # Null
        /\ \A p \in host[exported.of].mixed : ~Has(exported.value, p)

\* a text node with a mixed font and mixed fills was exported, with its
\* size and its line height, which are not mixed
C21_Witness ==
    /\ exported.status = "returned" /\ exported.value # Null
    /\ host[exported.of].mixed = {"fontName", "fills"}
    /\ Has(exported.value, "fontSize") /\ Has(exported.value, "lineHeight")

-----------------------------------------------------------------------------
(* Layout participation of the children of a vertical container *)

\* the host node built for the i-th child of the top-level canonical node
BuiltFor(i) ==
    {n \in Created : PathOf(n) = <<i>> /\ ~host[n].removed}

\* C22 (as the specification states it): the children of a vertical
\* auto-layout container that specify no width carry layoutAlign = STRETCH
\* once the container is constructed.
C22_ChildrenStretch ==
    (Done /\ result.status = "node" /\ doc.type = "FRAME"
     /\ Has(doc, "layoutMode") /\ doc.layoutMode = "VERTICAL") =>
        \A i \in DOMAIN doc.children :
            (doc.children[i] # Null /\ ~Has(doc.children[i], "width")) =>
                \A n \in BuiltFor(i) : host[n].props.layoutAlign = "STRETCH"

-----------------------------------------------------------------------------
(* The auto-resize mode of a text node *)

\* a canonical text node with the fields applyTextAutoResize reads, each of
\* them supplied or not
TextInputs ==
    {[name |-> "label", type |-> "TEXT", characters |-> "hello"] @@ m @@ w @@ h @@ a @@ g :
        m \in {<<>>} \cup {[textAutoResize |-> v] :
                               v \in {"NONE", "HEIGHT", "WIDTH_AND_HEIGHT", "TRUNCATE"}},
        w \in {<<>>, [width |-> 80]}, h \in {<<>>, [height |-> 20]},
        a \in {<<>>, [layoutAlign |-> "INHERIT"]}, g \in {<<>>, [layoutGrow |-> 0]}}

\* the container the text node is a child of: an auto-layout one or not
TextParents ==
    {[name |-> "box", type |-> "FRAME", width |-> 200, height |-> 100] @@ l :
        l \in {<<>>, [layoutMode |-> "NONE"], [layoutMode |-> "VERTICAL"]}}

InitAutoResize ==
    /\ doc \in {p @@ [children |-> <<t>>] : p \in TextParents, t \in TextInputs}
    /\ host = [n \in {PageId} |-> Page]
    /\ stack = <<>>
    /\ exc = FALSE
    /\ result = Idle
    /\ log = <<>>
    /\ exported = NotExported

\* TextNodeCreator.applyTextAutoResize runs for the child, the host text
\* node being hostHeight high
AutoResize ==
    /\ result = Idle
    /\ \E hostHeight \in {14} :
         result' = [status |-> "writes",
                    writes |-> ApplyTextAutoResize(doc.children[1], hostHeight)]
    /\ UNCHANGED <<doc, host, stack, exc, log, exported>>

SpecAutoResize == InitAutoResize /\ [][AutoResize]_vars

\* the container lays its children out automatically
IsAutoLayout(d) == Has(d, "layoutMode") /\ d.layoutMode \in {"HORIZONTAL", "VERTICAL"}

\* the mode the text node is given
ModeWritten ==
    LET ws == SelectSeq(result.writes, LAMBDA w : w.p = "textAutoResize")
    IN  ws[Len(ws)].v

\* C23 (as the specification states it): a supplied auto-resize mode is
\* used unchanged; without one, a child of an auto-layout container gets
\* HEIGHT when its width is known and WIDTH_AND_HEIGHT otherwise, and any
\* other node gets NONE when width and height are known, HEIGHT when only
\* the width is, and WIDTH_AND_HEIGHT otherwise.
C23_AutoResizeMode ==
    result.status = "writes" =>
        LET d == doc.children[1]
        IN  ModeWritten =
                IF Has(d, "textAutoResize") THEN d.textAutoResize
                ELSE IF IsAutoLayout(doc)
                THEN (IF Has(d, "width") THEN "HEIGHT" ELSE "WIDTH_AND_HEIGHT")
                ELSE IF Has(d, "width") /\ Has(d, "height") THEN "NONE"
                ELSE IF Has(d, "width") THEN "HEIGHT"
                ELSE "WIDTH_AND_HEIGHT"

-----------------------------------------------------------------------------
(* Completion of a create call *)

\* a step of a running create call: the continuation of an async function,
\* which the host's event loop runs once the promise it awaits settles
Construct ==
    \/ Enter \/ FontLoadResolve \/ FontLoadReject
    \/ StartChild \/ FinishChildren
    \/ BooleanCombine \/ BooleanFallback \/ BooleanEmpty
    \/ CreateChild \/ CreateNodeReturn \/ Propagate \/ CreateNodeCatch

\* canonical nodes that leave every optional field unspecified
LeanText == [name |-> "t", type |-> "TEXT", characters |-> "a"]
LeanRect == [name |-> "r", type |-> "RECTANGLE"]

\* containers of them (a children list may hold a JSON null), and a text
\* node on its own
LeanDocs ==
    {[name |-> "c", type |-> t, children |-> kids] :
        t \in {"FRAME", "BOOLEAN_OPERATION"},
        kids \in SeqUpTo({LeanText, LeanRect, Null}, MaxChildren)}
    \cup {LeanText}

CreateLean == CreateNodeFrom(LeanDocs)

NextLive == CreateLean \/ Construct

\* every font-load request settles, and every continuation that can run is
\* run
SpecLive == Init /\ [][NextLive]_vars /\ WF_vars(Construct)

\* C24: a create call that has started returns, a host node or null,
\* provided every font load it waits for settles.
C24_CreateCompletes ==
    (result = Pending) ~> (result.status \in {"node", "null"})

\* a create call has returned a node after a font load it waited for was
\* rejected and the next candidate was loaded
C24_Witness ==
    /\ Done /\ result.status = "node"
    /\ \E j \in DOMAIN log : \E k \in DOMAIN log :
           /\ j < k
           /\ log[j].p = "loadFontAsync" /\ log[k].p = "loadFontAsync"
           /\ log[j].n = log[k].n

-----------------------------------------------------------------------------
(* The Fill and Effect codecs on lists *)

\* the longest list of fills or effects handed to a codec
MaxPaints == 3

\* canonical fills: of every kind well specified, and lacking the field
\* the kind needs; EMOJI is no kind of fill
FillEntries ==
    {Solid(Unit, 0, 0), Solid(0, Unit, 0), [type |-> "SOLID"],
     [type |-> "GRADIENT_RADIAL", gradientTransform |-> Identity2x3,
      gradientStops |-> <<[position |-> 0, color |-> [r |-> 0, g |-> 0, b |-> 0, a |-> Unit]]>>],
     [type |-> "GRADIENT_RADIAL", gradientTransform |-> Identity2x3],
     [type |-> "IMAGE", imageHash |-> "h"], [type |-> "IMAGE"],
     [type |-> "VIDEO", videoHash |-> "v"], [type |-> "VIDEO"],
     [type |-> "EMOJI"]}

\* canonical effects; GLOW is no kind of effect
EffectEntries ==
    {[type |-> "DROP_SHADOW", radius |-> 4], [type |-> "INNER_SHADOW", radius |-> 2],
     [type |-> "LAYER_BLUR", radius |-> 4], [type |-> "GLOW", radius |-> 4]}

InitLists ==
    /\ doc \in {[fills |-> l] : l \in SeqUpTo(FillEntries, MaxPaints)}
               \cup {[effects |-> l] : l \in SeqUpTo(EffectEntries, MaxPaints)}
    /\ host = [n \in {PageId} |-> Page]
    /\ stack = <<>>
    /\ exc = FALSE
    /\ result = Idle
    /\ log = <<>>
    /\ exported = NotExported

\* FillMapper.toPaint(fills)
ConvertFills ==
    /\ result = Idle /\ Has(doc, "fills")
    /\ result' = [status |-> "list", list |-> ToPaint(doc.fills)]
    /\ UNCHANGED <<doc, host, stack, exc, log, exported>>

\* EffectMapper.toFigmaEffect(effects)
ConvertEffects ==
    /\ result = Idle /\ Has(doc, "effects")
    /\ result' = [status |-> "list", list |-> ToFigmaEffect(doc.effects)]
    /\ UNCHANGED <<doc, host, stack, exc, log, exported>>

NextLists == ConvertFills \/ ConvertEffects

SpecLists == InitLists /\ [][NextLists]_vars

\* a fill of a recognized kind that carries what its kind needs
WellSpecified(fill) ==
    CASE fill.type = "SOLID" -> Has(fill, "color")
      [] fill.type \in {"GRADIENT_LINEAR", "GRADIENT_RADIAL", "GRADIENT_ANGULAR",
                        "GRADIENT_DIAMOND"} ->
           Has(fill, "gradientStops") /\ Has(fill, "gradientTransform")
      [] fill.type = "IMAGE" -> Has(fill, "imageHash")
      [] fill.type = "VIDEO" -> Has(fill, "videoHash")
      [] OTHER -> FALSE

\* an effect of a recognized kind
Recognized(effect) ==
    effect.type \in {"DROP_SHADOW", "INNER_SHADOW", "LAYER_BLUR", "BACKGROUND_BLUR"}

-----------------------------------------------------------------------------
(* The construction strategies on their own: the writes each of them makes
   on the node it allocates, up to its children loop or return *)

\* the tags whose strategies are run
StrategyTypes ==
    {"FRAME", "SECTION", "RECTANGLE", "ELLIPSE", "POLYGON", "STAR", "LINE",
     "VECTOR", "TEXT"}

\* a width or height: unspecified, zero, negative, or a proper size
SizeInputs(f) == {<<>>} \cup {[x \in {f} |-> v] : v \in {0, 0 - 5, 50}}

\* a strokes list: unspecified, empty, of unsupported entries only, or
\* yielding a host paint
StrokeInputs ==
    {<<>>, [strokes |-> <<>>], [strokes |-> <<[type |-> "SOLID"]>>],
     [strokes |-> <<[type |-> "SOLID"], Solid(0, 0, Unit)>>]}

\* the stroke metrics of a canonical node
StrokeMetrics ==
    [strokeWeight |-> 2,
     individualStrokeWeights |-> [top |-> 1, right |-> 2, bottom |-> 3, left |-> 4],
     strokeAlign |-> "INSIDE", strokeCap |-> "ROUND", strokeJoin |-> "BEVEL",
     strokeMiterLimit |-> 4, dashPattern |-> <<2, 2>>]

\* the shape data of a canonical node, each strategy reading its own
ShapeData ==
    [arcData |-> [startingAngle |-> 0, endingAngle |-> 3, innerRadius |-> 0],
     pointCount |-> 5, innerRadius |-> 40, cornerRadius |-> 4, cornerSmoothing |-> 60]

StrategyInputs ==
    {[name |-> "n", type |-> t] @@ w @@ h @@ f @@ s @@ m @@ x :
        t \in StrategyTypes, w \in SizeInputs("width"), h \in SizeInputs("height"),
        f \in {<<>>, [fills |-> <<Solid(Unit, 0, 0)>>]}, s \in StrokeInputs,
        m \in {<<>>, StrokeMetrics}, x \in {<<>>, ShapeData}}

InitStrategy ==
    /\ doc \in StrategyInputs
    /\ host = [n \in {PageId} |-> Page]
    /\ stack = <<>>
    /\ exc = FALSE
    /\ result = Idle
    /\ log = <<>>
    /\ exported = NotExported

\* createNodeByType hands the node to its strategy; the strategy allocates a
\* host node and writes on it
Build ==
    /\ result = Idle
    /\ CreateNodeByType(doc) # "TextNodeCreator.create"
    /\ \E hostAccepts \in BOOLEAN :
         result' = [status |-> "writes",
                    type |-> Allocates(CreateNodeByType(doc)),
                    writes |-> FirstWrites(CreateNodeByType(doc), doc, hostAccepts)]
    /\ UNCHANGED <<doc, host, stack, exc, log, exported>>

\* TextNodeCreator.create, loadFont having returned one of its candidates
BuildText ==
    /\ result = Idle
    /\ CreateNodeByType(doc) = "TextNodeCreator.create"
    /\ \E k \in DOMAIN FontCandidates(doc), hostHeight \in {14} :
         result' = [status |-> "writes",
                    type |-> "TEXT",
                    writes |-> FirstWrites("TextNodeCreator.create", doc, TRUE)
                               \o TextCreate(doc, FontCandidates(doc)[k], hostHeight)]
    /\ UNCHANGED <<doc, host, stack, exc, log, exported>>

NextStrategy == Build \/ BuildText

SpecStrategy == InitStrategy /\ [][NextStrategy]_vars

\* the writes of intrinsic shape data, of paint, and of corner shape
ShapeWrites ==
    {"resize", "resizeWithoutConstraints", "vectorPaths", "vectorNetwork",
     "pointCount", "innerRadius", "arcData"}
PaintWrites ==
    {"fills", "strokes", "strokeWeight", "strokeTopWeight", "strokeRightWeight",
     "strokeBottomWeight", "strokeLeftWeight", "strokeAlign", "strokeCap",
     "strokeJoin", "strokeMiterLimit", "dashPattern"}
CornerWrites ==
    {"cornerRadius", "cornerSmoothing", "topLeftRadius", "topRightRadius",
     "bottomLeftRadius", "bottomRightRadius"}

\* the writes the host took
Taken == SelectSeq(result.writes, LAMBDA w : ~Has(w, "rejected"))

\* C26 (as the specification states it): a strategy writes intrinsic shape
\* data, then fills, then strokes, then corner radius and smoothing: no
\* shape datum is written after a paint write, no fills after strokes, and
\* no paint or shape datum after a corner write.
C26_StrategyOrder ==
    result.status = "writes" =>
        \A i, j \in DOMAIN Taken :
            i < j =>
                /\ ~(Taken[i].p \in PaintWrites /\ Taken[j].p \in ShapeWrites)
                /\ ~(Taken[i].p \in PaintWrites \ {"fills"} /\ Taken[j].p = "fills")
                /\ ~(Taken[i].p \in CornerWrites
                     /\ Taken[j].p \in PaintWrites \cup ShapeWrites)

\* the sizes handed to the host: the arguments of resize and of
\* resizeWithoutConstraints
Sizes ==
    SelectSeq(Taken, LAMBDA w : w.p \in {"resize", "resizeWithoutConstraints"})

\* C27 (as the specification states it): every size handed to the host is
\* at least 1 on each axis, whatever width and height the canonical node
\* has, and when it has neither the size handed over is 100 by 100.
C27_MinSize ==
    result.status = "writes" =>
        \A i \in DOMAIN Sizes :
            /\ Sizes[i].v[1] >= 1 /\ Sizes[i].v[2] >= 1
            /\ (~Has(doc, "width") /\ ~Has(doc, "height")) => Sizes[i].v = <<100, 100>>

-----------------------------------------------------------------------------
(* Attachment to the page *)

\* the nodes of the call's tree that are on the page
OnPage == {n \in Created : host[n].parent = PageId /\ ~host[n].removed}

\* C28 (as the specification states it): while a create call is running,
\* no node it has created is a child of the page, the call's target; the
\* top-level node is attached when the call returns it, and a call that
\* returns null leaves the page's child list as it was.
C28_AttachedWhenComplete ==
    /\ result = Pending => OnPage = {} /\ host[PageId].children = <<>>
    /\ result.status = "null" => host[PageId].children = <<>>

-----------------------------------------------------------------------------
(* Two create-design messages handled at once (code.js): each message gets
   its own activation of createDesign, whose awaits are the points where
   the other one runs.  Here doc, stack and result hold one entry for each
   of the two activations, and exc tells that the plugin has been closed. *)

Handlers == {1, 2}

\* mapType of createDesign
MapType(type) ==
    IF type \in {"header", "section", "div", "nav", "button"} THEN "FRAME"
    ELSE IF type \in {"h1", "p", "a"} THEN "TEXT"
    ELSE ToUpperCase(type)

\* processedComponents: the tags of the components and of their children
\* are mapped, in place
ProcessedComponents(components) ==
    [i \in DOMAIN components |->
        LET comp == [components[i] EXCEPT !.type = MapType(@)]
        IN  IF Has(comp, "children")
            THEN [comp EXCEPT !.children =
                      [j \in DOMAIN @ |-> [@[j] EXCEPT !.type = MapType(@)]]]
            ELSE comp]

\* the components of the messages
Paragraph(name) == [type |-> "p", name |-> name, content |-> "hi"]
Rect(name) == [type |-> "rectangle", name |-> name]
Oval(name) == [type |-> "ellipse", name |-> name]
Box(name, kids) == [type |-> "div", name |-> name, children |-> kids]

\* the messages handler h receives; the names tell the messages apart
Messages(h) ==
    LET a == IF h = 1 THEN "a" ELSE "b"
        b == IF h = 1 THEN "c" ELSE "d"
        e == IF h = 1 THEN "e" ELSE "f"
    IN  {[design |-> [designName |-> a, components |-> cs]] :
            cs \in {<<Box(b, <<Paragraph(e), Rect(a)>>)>>,
                    <<Box(b, <<Box(e, <<[type |-> "h1", name |-> a, content |-> "hi"]>>)>>),
                      Oval(e)>>}}

InitMessages ==
    /\ doc \in [Handlers -> UNION {Messages(h) : h \in Handlers}]
    /\ \A h \in Handlers : doc[h] \in Messages(h)
    /\ host = [n \in {PageId} |-> Page]
    /\ stack = [h \in Handlers |-> <<>>]
    /\ exc = FALSE
    /\ result = [h \in Handlers |-> "idle"]
    /\ log = <<>>
    /\ exported = NotExported

\* the host graph with a new node of type t
Allocate(hst, t) ==
    [n \in DOMAIN hst \cup {NextId(hst)} |->
        IF n = NextId(hst) THEN NewNode(t) ELSE hst[n]]

\* the activation on top of handler h's call chain, and the one that
\* awaits it: the activation whose local `node` (`parentFrame` for
\* createDesign) receives the node returned
Active(h) == stack[h][Len(stack[h])]

\* one `current parent` shared by the handlers: the activation that began
\* a children loop last, whichever handler it belongs to
SharedParent(h) ==
    LET o == CHOOSE o \in Handlers : o # h
    IN  IF Len(stack[o]) > 0 /\ stack[o][Len(stack[o])].pc = "loop"
        THEN stack[o][Len(stack[o])]
        ELSE stack[h][Len(stack[h]) - 1]

Awaiting(h) == stack[h][Len(stack[h]) - 1]

\* the children an activation loops over
Loop(f) == IF Has(f.c, "children") THEN f.c.children ELSE <<>>

\* applyCommonProperties of code.js, for a component without styles
CssCommonProperties(component) ==
    <<W("name", IF Has(component, "name") /\ component.name # ""
                THEN component.name ELSE component.type)>>
    \o Opt(component, "x") \o Opt(component, "y")

\* figma.ui.onmessage for a create-design message: createDesign runs up to
\* its loop over the components
OnMessage ==
    \E h \in Handlers :
        /\ ~exc /\ result[h] = "idle"
        /\ LET comps == ProcessedComponents(doc[h].design.components)
               pf == NextId(host)
               ws == <<W("name", IF doc[h].design.designName # ""
                                 THEN doc[h].design.designName
                                 ELSE "Generated Design"),
                       W("resize", <<1440, 1024>>), W("layoutMode", "VERTICAL")>>
           IN  /\ doc' = [doc EXCEPT ![h].design.components = comps]
               /\ host' = WriteAll(Allocate(host, "FRAME"), pf, ws)
               /\ log' = Append(log, [n |-> pf, p |-> "create", v |-> "FRAME",
                                      by |-> "createDesign", h |-> h])
               /\ stack' = [stack EXCEPT ![h] =
                               <<[c |-> [children |-> comps], n |-> pf, i |-> 1,
                                  pc |-> "loop"]>>]
        /\ result' = [result EXCEPT ![h] = "running"]
        /\ UNCHANGED <<exc, exported>>

\* createNode(component) is called for the next component or child: the
\* node is allocated and named; a text with content awaits its font; an
\* unsupported tag returns null and nothing is appended
CallCreateNode ==
    \E h \in Handlers :
        /\ ~exc /\ stack[h] # <<>>
        /\ Active(h).pc = "loop" /\ Active(h).i <= Len(Loop(Active(h)))
        /\ LET component == Loop(Active(h))[Active(h).i]
               t == IF component.type \in {"FRAME", "RECTANGLE"} THEN component.type
                    ELSE IF component.type \in {"TEXT", "h1", "p", "a"} THEN "TEXT"
                    ELSE "none"
               n == NextId(host)
           IN  IF t = "none"
               THEN /\ stack' = [stack EXCEPT ![h][Len(stack[h])].i = @ + 1]
                    /\ UNCHANGED <<host, log>>
               ELSE /\ host' = WriteAll(Allocate(host, t), n,
                                        CssCommonProperties(component))
                    /\ log' = Append(log, [n |-> n, p |-> "create", v |-> t,
                                           by |-> "createNode", h |-> h])
                    /\ stack' = [stack EXCEPT ![h] =
                                    Append(@, [c |-> component, n |-> n, i |-> 1,
                                               pc |-> IF t = "TEXT" /\ Has(component, "content")
                                                      THEN "font" ELSE "loop"])]
        /\ UNCHANGED <<doc, exc, result, exported>>

\* figma.loadFontAsync resolves, for the font asked for or for the
\* fallback: applyTextProperties writes the characters
FontLoaded ==
    \E h \in Handlers :
        /\ ~exc /\ stack[h] # <<>>
        /\ Active(h).pc \in {"font", "fallback"}
        /\ host' = WriteAll(host, Active(h).n, <<W("characters", Active(h).c.content)>>)
        /\ stack' = [stack EXCEPT ![h][Len(stack[h])].pc = "loop"]
        /\ UNCHANGED <<doc, exc, result, log, exported>>

\* figma.loadFontAsync rejects for the font asked for: the fallback font
\* is loaded
FontMissing ==
    \E h \in Handlers :
        /\ ~exc /\ stack[h] # <<>>
        /\ Active(h).pc = "font"
        /\ stack' = [stack EXCEPT ![h][Len(stack[h])].pc = "fallback"]
        /\ UNCHANGED <<doc, host, exc, result, log, exported>>

\* figma.loadFontAsync rejects for the fallback too: the rejection leaves
\* every activation of the handler, whose promise is rejected
FallbackMissing ==
    \E h \in Handlers :
        /\ ~exc /\ stack[h] # <<>>
        /\ Active(h).pc = "fallback"
        /\ stack' = [stack EXCEPT ![h] = <<>>]
        /\ result' = [result EXCEPT ![h] = "rejected"]
        /\ UNCHANGED <<doc, host, exc, log, exported>>

\* createNode returns its node, its children loop over: the activation
\* that awaited it appends the node to its own
ReturnNode ==
    \E h \in Handlers :
        /\ ~exc /\ Len(stack[h]) > 1
        /\ Active(h).pc = "loop" /\ Active(h).i > Len(Loop(Active(h)))
        /\ host' = AppendChild(host, Awaiting(h).n, Active(h).n)
        /\ log' = Append(log, [n |-> Awaiting(h).n, p |-> "appendChild",
                               v |-> Active(h).n, by |-> "createNode", h |-> h])
        /\ stack' = [stack EXCEPT ![h] =
                        [k \in 1..(Len(@) - 1) |->
                            IF k = Len(@) - 1 THEN [@[k] EXCEPT !.i = @ + 1] ELSE @[k]]]
        /\ UNCHANGED <<doc, exc, result, exported>>

\* createDesign, its loop over: the selection and the viewport are set to
\* parentFrame, and the plugin is closed
FinishDesign ==
    \E h \in Handlers :
        /\ ~exc /\ Len(stack[h]) = 1
        /\ Active(h).i > Len(Loop(Active(h)))
        /\ host' = WriteAll(host, PageId, <<W("selection", <<Active(h).n>>)>>)
        /\ log' = log \o <<[n |-> PageId, p |-> "selection", v |-> <<Active(h).n>>,
                            by |-> "createDesign", h |-> h],
                           [n |-> PageId, p |-> "scrollAndZoomIntoView",
                            v |-> <<Active(h).n>>, by |-> "createDesign", h |-> h]>>
        /\ stack' = [stack EXCEPT ![h] = <<>>]
        /\ result' = [result EXCEPT ![h] = "done"]
        /\ exc' = TRUE
        /\ UNCHANGED <<doc, exported>>

NextMessages ==
    \/ OnMessage \/ CallCreateNode \/ FontLoaded \/ FontMissing \/ FallbackMissing
    \/ ReturnNode \/ FinishDesign

SpecMessages == InitMessages /\ [][NextMessages]_vars

\* the handler that allocated host node n
Owner(n) == log[CHOOSE k \in DOMAIN log : log[k].p = "create" /\ log[k].n = n].h

\* the parentFrame of handler h
ParentFrame(h) ==
    log[CHOOSE k \in DOMAIN log : log[k].by = "createDesign" /\ log[k].p = "create"
                                  /\ log[k].h = h].n

\* the tree a list of components stands for: the supported ones, in order
RECURSIVE TreeOf(_)
TreeOf(components) ==
    LET supported == SelectSeq(components, LAMBDA c :
                         c.type \in {"FRAME", "RECTANGLE", "TEXT", "h1", "p", "a"})
    IN  [i \in DOMAIN supported |->
            [name |-> supported[i].name,
             type |-> IF supported[i].type \in {"FRAME", "RECTANGLE"}
                      THEN supported[i].type ELSE "TEXT",
             kids |-> IF Has(supported[i], "children")
                      THEN TreeOf(supported[i].children) ELSE <<>>]]

\* the tree under host node n
RECURSIVE TreeUnder(_, _)
TreeUnder(hst, n) ==
    [i \in DOMAIN hst[n].children |->
        [name |-> hst[hst[n].children[i]].props.name,
         type |-> hst[hst[n].children[i]].type,
         kids |-> TreeUnder(hst, hst[n].children[i])]]

\* C29: with two create-design messages in progress at once, a node is only
\* ever appended under a node built for the same message; a handler sets
\* the selection and the viewport to its own top-level node only; and the
\* tree a handler has completed holds the nodes of its own message, all of
\* them and in their canonical order.
C29_HandlersApart ==
    /\ \A n \in DOMAIN host \ {PageId} :
           host[n].parent # 0 => Owner(host[n].parent) = Owner(n)
    /\ \A k \in DOMAIN log :
           /\ log[k].p = "appendChild" =>
                  Owner(log[k].n) = log[k].h /\ Owner(log[k].v) = log[k].h
           /\ log[k].n = PageId => log[k].v = <<ParentFrame(log[k].h)>>
    /\ \A h \in Handlers :
           result[h] = "done" =>
               TreeUnder(host, ParentFrame(h)) = TreeOf(doc[h].design.components)

\* the first handler completed its tree of two levels while the second,
\* begun before the first had built its last node, stood at a font load
C29_Witness ==
    /\ result[1] = "done" /\ result[2] = "running"
    /\ Len(stack[2]) > 1 /\ Active(2).pc = "font"
    /\ \E n, q \in DOMAIN host :
           /\ n # PageId /\ q # PageId /\ n > q
           /\ Owner(n) = 1 /\ Owner(q) = 2
           /\ host[n].parent # 0 /\ host[host[n].parent].parent = ParentFrame(1)

\* the stroke-related writes of the strategy
StrokeWritten == {Taken[i].p : i \in DOMAIN Taken} \cap (PaintWrites \ {"fills"})

\* the canonical strokes list yields at least one host paint
YieldsPaint ==
    Has(doc, "strokes") /\ \E i \in DOMAIN doc.strokes : WellSpecified(doc.strokes[i])

=============================================================================
